---- MODULE Spec2Model ----
(***************************************************************************)
(* Echo Web Sync (Obsidian plugin): the marker-based capture sync engine,  *)
(* the section editor of the daily notes, the todo reconciler and the      *)
(* single-flight orchestrator.                                             *)
(*                                                                         *)
(* Text is a sequence of tokens.  A token is one character of the text     *)
(* ("#", a digit, "SP" for a blank, "NL" for a line feed, an emoji) or a   *)
(* literal that the program only ever writes and searches as a whole       *)
(* ("OLDID" for '<!-- echo-id:', "CLOSE" for ' -->', "BUL" for the         *)
(* '- **HH:MM** ' prefix of a capture line, "FM" for a frontmatter block). *)
(* String positions are 1-based; 0 stands for JavaScript's -1.             *)
(*                                                                         *)
(* Specifications: Spec (the plugin on pages of PageLimit captures, with   *)
(* FairSpec for its progress), PageSpec (pages of WidePage captures),      *)
(* TodoSpec (the reconciler on a set of vaults and remote todo lists),     *)
(* EditorSpec and SectionSpec (appendToSection and replaceTodoSection      *)
(* called on one document).                                                *)
(***************************************************************************)
EXTENDS Integers, Sequences, FiniteSets, TLC

\* ------------------------------------------------------------------ bounds
MaxCalls == 3
\* appendToSection calls made on one document in the section-editor harness

MaxRuns == 2
\* sync bodies started in one behaviour

PageLimit == 1
\* the page size passed to syncCaptures, scaled down from 100

WidePage == 3
\* the page size where the date groups and the captures of one page matter

MaxFaults == 1
\* calls that fail at the start of a behaviour

MaxCount == 6
\* the value at which the counters of a sync result saturate

\* ------------------------------------------------------------ text helpers
Min(S) == CHOOSE x \in S : \A y \in S : x <= y

Max(S) == CHOOSE x \in S : \A y \in S : x >= y

DigitTok == <<"0", "1", "2", "3", "4", "5", "6", "7", "8", "9">>

IsDigit(t) == \E i \in 1..10 : DigitTok[i] = t

IsSpace(t) == t \in {"SP", "NL"}

\* Template-literal rendering of a non-negative integer: its decimal digits.
RECURSIVE Digits(_)
Digits(n) == IF n < 10 THEN <<DigitTok[n + 1]>>
             ELSE Digits(n \div 10) \o <<DigitTok[(n % 10) + 1]>>

\* s.substring(from) with a 1-based from
Substring(s, from) == SubSeq(s, from, Len(s))

\* p occurs in s at position i
OccursAt(s, p, i) ==
  /\ i >= 1
  /\ i + Len(p) - 1 <= Len(s)
  /\ \A j \in 1..Len(p) : s[i + j - 1] = p[j]

\* String.prototype.indexOf: first position of p in s, 0 when absent
IndexOf(s, p) ==
  LET I == {i \in 1..(Len(s) + 1) : OccursAt(s, p, i)}
  IN  IF I = {} THEN 0 ELSE Min(I)

\* String.prototype.includes
Includes(s, p) == IndexOf(s, p) # 0

\* String.prototype.trimEnd: drop the trailing blanks and line feeds
TrimEnd(s) ==
  LET K == {k \in 0..Len(s) : k = 0 \/ ~IsSpace(s[k])}
  IN  SubSeq(s, 1, Max(K))

\* the maximal run of digits of s starting at position i (greedy \d+), and
\* the position of its last digit
RECURSIVE DigitEnd(_, _)
DigitEnd(s, i) ==
  IF i <= Len(s) /\ IsDigit(s[i]) THEN DigitEnd(s, i + 1) ELSE i - 1

DigitRun(s, i) == SubSeq(s, i, DigitEnd(s, i))

\* ------------------------------------------------------------ marker codec
TapeMark == <<"#", "TAPE">>

CompactMarker(digits) == TapeMark \o <<"SP">> \o digits

TightMarker(digits) == TapeMark \o digits

LegacyMarker(digits) == <<"OLDID">> \o digits \o <<"CLOSE">>

\* entry.match(/#TAPE ?(\d+)/)?.[1]; <<>> when there is no match
MatchNewMarker(entry) ==
  LET At(i) == IF OccursAt(entry, TapeMark \o <<"SP">>, i)
                  /\ DigitRun(entry, i + 3) # <<>>
               THEN DigitRun(entry, i + 3)
               ELSE IF OccursAt(entry, TapeMark, i)
               THEN DigitRun(entry, i + 2)
               ELSE <<>>
      I == {i \in 1..Len(entry) : At(i) # <<>>}
  IN  IF I = {} THEN <<>> ELSE At(Min(I))

\* entry.match(/<!-- echo-id:(\d+) -->/)?.[1]; <<>> when there is no match
MatchOldMarker(entry) ==
  LET At(i) == IF entry[i] = "OLDID"
                  /\ DigitRun(entry, i + 1) # <<>>
                  /\ OccursAt(entry, <<"CLOSE">>,
                              i + 1 + Len(DigitRun(entry, i + 1)))
               THEN DigitRun(entry, i + 1)
               ELSE <<>>
      I == {i \in 1..Len(entry) : At(i) # <<>>}
  IN  IF I = {} THEN <<>> ELSE At(Min(I))

\* const markerId = newMarker?.[1] || oldMarker?.[1]
MarkerIdOf(entry) ==
  IF MatchNewMarker(entry) # <<>> THEN MatchNewMarker(entry)
  ELSE MatchOldMarker(entry)

\* a duplicate test that knows the legacy marker only
AlreadySynced_LegacyOnly(content, markerId) ==
  Includes(content, LegacyMarker(markerId))

\* the duplicate test of appendToSection for a marker id that was found
AlreadySynced(content, markerId) ==
  \/ Includes(content, CompactMarker(markerId))
  \/ Includes(content, TightMarker(markerId))
  \/ Includes(content, LegacyMarker(markerId))

\* ----------------------------------------------------------- section editor
\* rest.match(/\n(#{1,4} )/)?.index as a 1-based position, 0 when no match
NextSectionMatch(rest) ==
  LET Hit(i) == /\ rest[i] = "NL"
                /\ \E d \in 1..4 :
                     /\ i + d + 1 <= Len(rest)
                     /\ \A k \in 1..d : rest[i + k] = "#"
                     /\ rest[i + d + 1] = "SP"
      I == {i \in 1..Len(rest) : Hit(i)}
  IN  IF I = {} THEN 0 ELSE Min(I)

\* appendToSection without its duplicate test
appendToSection_NoDedup(content, entry, header) ==
  LET headerIndex == IndexOf(content, header)
      afterHeader == headerIndex + Len(header)
      rest == Substring(content, afterHeader)
      m == NextSectionMatch(rest)
      insertPos == IF m # 0 THEN afterHeader + m - 1 ELSE Len(content) + 1
      before == TrimEnd(SubSeq(content, 1, insertPos - 1))
      after == Substring(content, insertPos)
  IN  IF headerIndex = 0
      THEN TrimEnd(content) \o <<"NL","NL">> \o header \o <<"NL","NL">> \o entry \o <<"NL">>
      ELSE before \o <<"NL","NL">> \o entry \o <<"NL">> \o after

\* an appendToSection that inserts right after the header line, before the
\* fragments the section holds
appendToSection_AtTop(content, entry, header) ==
  LET markerId == MarkerIdOf(entry)
      headerIndex == IndexOf(content, header)
      afterHeader == headerIndex + Len(header)
  IN  IF markerId # <<>> /\ AlreadySynced(content, markerId)
      THEN content
      ELSE IF headerIndex = 0
      THEN TrimEnd(content) \o <<"NL", "NL">> \o header
             \o <<"NL", "NL">> \o entry \o <<"NL">>
      ELSE SubSeq(content, 1, afterHeader - 1) \o <<"NL", "NL">> \o entry
             \o <<"NL">> \o Substring(content, afterHeader)

\* DailyNoteManager.appendToSection: the content written back to the file
\* (the content read when the call returns without a write)
appendToSection(content, entry, header) ==
  LET markerId == MarkerIdOf(entry)
      headerIndex == IndexOf(content, header)
      afterHeader == headerIndex + Len(header)
      rest == Substring(content, afterHeader)
      m == NextSectionMatch(rest)
      insertPos == IF m # 0 THEN afterHeader + m - 1 ELSE Len(content) + 1
      before == TrimEnd(SubSeq(content, 1, insertPos - 1))
      after == Substring(content, insertPos)
  IN  IF markerId # <<>> /\ AlreadySynced(content, markerId)
      THEN content
      ELSE IF headerIndex = 0
      THEN TrimEnd(content) \o <<"NL", "NL">> \o header
             \o <<"NL", "NL">> \o entry \o <<"NL">>
      ELSE before \o <<"NL", "NL">> \o entry \o <<"NL">> \o after

\* String.prototype.trim
Trim(s) ==
  LET t == TrimEnd(s)
      K == {k \in 1..(Len(t) + 1) : k = Len(t) + 1 \/ ~IsSpace(t[k])}
  IN  Substring(t, Min(K))

\* lines.join("\n")
RECURSIVE JoinLines(_)
JoinLines(lines) ==
  IF lines = <<>> THEN <<>>
  ELSE IF Len(lines) = 1 THEN lines[1]
  ELSE lines[1] \o <<"NL">> \o JoinLines(Tail(lines))

\* ----------------------------------------------------------------- settings
\* DEFAULT_SETTINGS.sectionHeader, "#### " and the brain emoji
sectionHeader == <<"#", "#", "#", "#", "SP", "BRAIN">>

\* DEFAULT_SETTINGS.todoSectionHeader, "#### " and the check-mark emoji
todoSectionHeader == <<"#", "#", "#", "#", "SP", "CHECK">>

\* the literal robotHeader of replaceTodoSection and of the skeleton
robotHeader == <<"#", "#", "#", "#", "SP", "ROBOT">>

\* DEFAULT_SETTINGS: the three formatting toggles
DEFAULT_SETTINGS ==
  [showTags |-> TRUE, showLocation |-> TRUE, showAudioLinks |-> TRUE]

\* -------------------------------------------------------- capture formatter
\* capture.tags.map(t => "#" + t).join(" ")
RECURSIVE TagStr(_)
TagStr(tags) ==
  IF tags = <<>> THEN <<>>
  ELSE IF Len(tags) = 1 THEN <<"#">> \o tags[1]
  ELSE <<"#">> \o tags[1] \o <<"SP">> \o TagStr(Tail(tags))

\* formatCapture: "TASK0" is '- [ ] ', "BUL" is '- **HH:MM** ', "PIN" the
\* location emoji, "AUDIO" the link up to '/api/captures/', "AUDIOEND" its
\* tail from '/audio?token='
formatCapture(capture, settings) ==
  LET first == IF capture.type = "task"
               THEN <<"TASK0">> \o Trim(capture.text)
               ELSE <<"BUL">> \o Trim(capture.text)
                      \o (IF settings.showTags /\ Len(capture.tags) > 0
                          THEN <<"SP">> \o TagStr(capture.tags) ELSE <<>>)
      loc == IF settings.showLocation /\ capture.location_address # <<>>
             THEN << <<"SP", "SP", "PIN", "SP">> \o capture.location_address >>
             ELSE <<>>
      audio == IF settings.showAudioLinks /\ capture.has_audio
               THEN << <<"SP", "SP", "AUDIO">> \o Digits(capture.id)
                         \o <<"AUDIOEND">> >>
               ELSE <<>>
      marker == <<"SP", "SP">> \o LegacyMarker(Digits(capture.id))
  IN  JoinLines(<<first>> \o loc \o audio \o <<marker>>)

\* createDailyNoteContent with syncTodos on: "FM" is the frontmatter block
\* from '---' to '---', "DATE" and the digits of
\* the day stand for the date string
createDailyNoteContent(dateStr) ==
  <<"FM", "NL", "NL", "#", "SP", "DATE">> \o Digits(dateStr) \o <<"NL", "NL">>
    \o sectionHeader \o <<"NL", "NL">>
    \o todoSectionHeader \o <<"NL", "NL">>
    \o robotHeader \o <<"NL">>

\* DailyNoteManager.replaceTodoSection: the content written back to the file
replaceTodoSection(content, todoEntries) ==
  LET header == todoSectionHeader
      headerIndex == IndexOf(content, header)
      robotIndex == IndexOf(content, robotHeader)
      afterHeader == headerIndex + Len(header)
      rest == Substring(content, afterHeader)
      m == NextSectionMatch(rest)
      sectionEnd == IF m # 0 THEN afterHeader + m - 1 ELSE Len(content) + 1
  IN  IF headerIndex = 0
      THEN IF robotIndex # 0
           THEN TrimEnd(SubSeq(content, 1, robotIndex - 1)) \o <<"NL", "NL">>
                  \o header \o <<"NL", "NL">> \o todoEntries \o <<"NL", "NL">>
                  \o Substring(content, robotIndex)
           ELSE TrimEnd(content) \o <<"NL", "NL">> \o header \o <<"NL", "NL">>
                  \o todoEntries \o <<"NL">>
      ELSE SubSeq(content, 1, afterHeader - 1) \o <<"NL", "NL">> \o todoEntries
             \o <<"NL">> \o Substring(content, sectionEnd)

\* ------------------------------------------------------------- todo lines
\* content.split("\n")
RECURSIVE Split(_)
Split(content) ==
  LET i == IndexOf(content, <<"NL">>)
  IN  IF i = 0 THEN <<content>>
      ELSE <<SubSeq(content, 1, i - 1)>> \o Split(Substring(content, i + 1))

\* the lines that are not empty in the body of the todo section, the body
\* taken between the bounds replaceTodoSection computes
TodoSectionLines(content) ==
  LET headerIndex == IndexOf(content, todoSectionHeader)
      rest == Substring(content, headerIndex + Len(todoSectionHeader))
      m == NextSectionMatch(rest)
      body == IF m # 0 THEN SubSeq(rest, 1, m - 1) ELSE rest
  IN  IF headerIndex = 0 THEN <<>>
      ELSE SelectSeq(Split(body), LAMBDA l : l # <<>>)

\* parseInt of a run of digits
RECURSIVE ParseInt(_)
ParseInt(digits) ==
  IF digits = <<>> THEN 0
  ELSE 10 * ParseInt(SubSeq(digits, 1, Len(digits) - 1))
         + (CHOOSE v \in 0..9 : DigitTok[v + 1] = digits[Len(digits)])

\* TODO_LINE_RE: "TASK0", "TASKX" and "TASKH" are '- [ ] ', '- [x] ' and
\* '- [/] ' at the start of a line
IsTodoLine(line) == line # <<>> /\ line[1] \in {"TASK0", "TASKX", "TASKH"}

\* the match of ECHO_TODO_MARKER, /#TAPE t ?(\d+)/, in a line: position,
\* length and digits of the first match, or no match
MatchTodoMarker(line) ==
  LET pre == TapeMark \o <<"t">>
      Run(i) == IF OccursAt(line, pre \o <<"SP">>, i)
                   /\ DigitRun(line, i + 4) # <<>>
                THEN [len |-> 4 + Len(DigitRun(line, i + 4)),
                      digits |-> DigitRun(line, i + 4)]
                ELSE IF OccursAt(line, pre, i)
                THEN [len |-> 3 + Len(DigitRun(line, i + 3)),
                      digits |-> DigitRun(line, i + 3)]
                ELSE [len |-> 0, digits |-> <<>>]
      I == {i \in 1..Len(line) : Run(i).digits # <<>>}
  IN  IF I = {} THEN [at |-> 0, len |-> 0, digits |-> <<>>]
      ELSE [at |-> Min(I), len |-> Run(Min(I)).len,
            digits |-> Run(Min(I)).digits]

\* the match of ECHO_TODO_MARKER_OLD, /<!-- echo-todo:(\d+) -->/: "OLDTODO"
\* is '<!-- echo-todo:'
MatchTodoMarkerOld(line) ==
  LET Run(i) == IF line[i] = "OLDTODO" /\ DigitRun(line, i + 1) # <<>>
                   /\ OccursAt(line, <<"CLOSE">>,
                               i + 1 + Len(DigitRun(line, i + 1)))
                THEN DigitRun(line, i + 1) ELSE <<>>
      I == {i \in 1..Len(line) : Run(i) # <<>>}
  IN  IF I = {} THEN [at |-> 0, len |-> 0, digits |-> <<>>]
      ELSE [at |-> Min(I), len |-> 2 + Len(Run(Min(I))),
            digits |-> Run(Min(I))]

\* s.replace(match, ""): the text without the len tokens from position at
Cut(s, at, len) ==
  IF at = 0 THEN s ELSE SubSeq(s, 1, at - 1) \o Substring(s, at + len)

\* the text of a task line: checkbox, first emblem and first marker of each
\* format removed, then trimmed
TodoText(line) ==
  LET a == Tail(line)
      b == Cut(a, IndexOf(a, <<"MIC">>), 1)
      mb == MatchTodoMarker(b)
      c == Cut(b, mb.at, mb.len)
      mc == MatchTodoMarkerOld(c)
  IN  Trim(Cut(c, mc.at, mc.len))

\* the ObsidianTodo of one line; echoId 0 stands for null (the code tests
\* ot.echoId for truth, and so treats the id 0 alike)
ParseTodoLine(line, i) ==
  LET mn == MatchTodoMarker(line)
      mo == MatchTodoMarkerOld(line)
  IN  [text |-> TodoText(line),
       completed |-> line[1] = "TASKX",
       echoId |-> IF mn.digits # <<>> THEN ParseInt(mn.digits)
                  ELSE ParseInt(mo.digits),
       line |-> line,
       lineIndex |-> i]

\* parseTodosFromContent: the task lines that hold the emblem, in line
\* order; lineIndex counts from 0
parseTodosFromContent(content) ==
  LET lines == Split(content)
      RECURSIVE From(_)
      From(i) ==
        IF i > Len(lines) THEN <<>>
        ELSE IF IsTodoLine(lines[i]) /\ Includes(lines[i], <<"MIC">>)
        THEN <<ParseTodoLine(lines[i], i - 1)>> \o From(i + 1)
        ELSE From(i + 1)
  IN  From(1)

\* an addMarkerToLine that puts the marker on a line of its own under the
\* task line
addMarkerToLine_OwnLine(content, lineIndex, originalLine, todoId) ==
  LET lines == Split(content)
  IN  IF lineIndex < Len(lines) /\ lines[lineIndex + 1] = originalLine
      THEN JoinLines([lines EXCEPT ![lineIndex + 1] =
                        originalLine \o <<"NL">> \o TapeMark \o <<"t", "SP">>
                          \o Digits(todoId)])
      ELSE content

\* addMarkerToLine: the content after the call; unchanged when the line at
\* lineIndex is not the scanned line
addMarkerToLine(content, lineIndex, originalLine, todoId) ==
  LET lines == Split(content)
  IN  IF lineIndex < Len(lines) /\ lines[lineIndex + 1] = originalLine
      THEN JoinLines([lines EXCEPT ![lineIndex + 1] =
                        originalLine \o <<"SP">> \o TapeMark \o <<"t", "SP">>
                          \o Digits(todoId)])
      ELSE content

\* the line writeTodosToDaily renders for a todo
RenderTodo(todo) ==
  <<IF todo.completed THEN "TASKX" ELSE "TASK0", "MIC", "SP">>
    \o Trim(todo.text) \o <<"SP">> \o TapeMark \o <<"t", "SP">>
    \o Digits(todo.id)

\* ------------------------------------------------ markers found in a text
\* the id of the marker that starts at position i of s, <<>> when none does:
\* the compact form with or without the blank, or the legacy comment
MarkerIdAt(s, i) ==
  IF OccursAt(s, TapeMark \o <<"SP">>, i) /\ DigitRun(s, i + 3) # <<>>
  THEN DigitRun(s, i + 3)
  ELSE IF OccursAt(s, TapeMark, i) /\ DigitRun(s, i + 2) # <<>>
  THEN DigitRun(s, i + 2)
  ELSE IF s[i] = "OLDID" /\ DigitRun(s, i + 1) # <<>>
          /\ OccursAt(s, <<"CLOSE">>, i + 1 + Len(DigitRun(s, i + 1)))
  THEN DigitRun(s, i + 1)
  ELSE <<>>

\* the positions of s at which a marker for exactly the id n starts
MarkerPositions(s, n) ==
  {i \in {j \in 1..Len(s) : s[j] = "OLDID" \/ OccursAt(s, TapeMark, j)} :
     MarkerIdAt(s, i) = Digits(n)}

MarkerCount(s, n) == Cardinality(MarkerPositions(s, n))

\* every marker of the text s is a marker for n, and there is one
CarriesOnly(s, n) ==
  /\ MarkerCount(s, n) >= 1
  /\ \A i \in 1..Len(s) : MarkerIdAt(s, i) \in {<<>>, Digits(n)}

\* ---------------------------------------------------- section-editor inputs
PlainCapture(n) ==
  [id |-> n, text |-> <<"w">>, type |-> "brain", tags |-> <<>>,
   location_address |-> <<>>, has_audio |-> FALSE]

DocHead ==
  <<"FM", "NL", "NL", "#", "SP", "DATE", "1", "NL", "NL">> \o sectionHeader

DocTail ==
  <<"NL", "NL">> \o todoSectionHeader \o <<"NL", "NL">> \o robotHeader
    \o <<"NL">>

DocWith(body) == DocHead \o <<"NL", "NL">> \o body \o DocTail

\* a capture line as each marker format leaves it in a document
MarkedLines(n) ==
  { <<"BUL", "w", "NL", "SP", "SP">> \o LegacyMarker(Digits(n)),
    <<"BUL", "w", "SP">> \o CompactMarker(Digits(n)),
    <<"BUL", "w", "SP">> \o TightMarker(Digits(n)) }

\* documents the editor is applied to: an empty file, a file without the
\* capture header, the skeleton, a file that ends with the header, and
\* skeletons that hold one marked line for capture 4 or capture 42
EditorDocs ==
  { <<>>, <<"#", "SP", "DATE", "1", "NL">>, createDailyNoteContent(1),
    DocHead \o <<"NL">> }
    \cup {DocWith(b) : b \in MarkedLines(4) \cup MarkedLines(42)}

\* fragments handed to appendToSection: formatCapture output for three
\* captures, and fragments for capture 4 that carry a compact marker
EditorEntries ==
  {[id |-> n, entry |-> formatCapture(PlainCapture(n), DEFAULT_SETTINGS)] :
     n \in {4, 42, 7}}
    \cup {[id |-> 4, entry |-> l] : l \in MarkedLines(4)}

\* ------------------------------------------------------- the remote captures
\* created_at is a count of half days: the ISO strings of one server compare
\* as their instants do.  0 stands for the empty lastSyncTimestamp.
Captures ==
  { [id |-> 42, created_at |-> 2, type |-> "brain", text |-> <<"w">>,
     tags |-> <<>>, location_address |-> <<>>, has_audio |-> FALSE,
     meeting_title |-> <<>>],
    [id |-> 4, created_at |-> 3, type |-> "task", text |-> <<"w">>,
     tags |-> <<>>, location_address |-> <<>>, has_audio |-> FALSE,
     meeting_title |-> <<>>],
    [id |-> 7, created_at |-> 4, type |-> "meeting", text |-> <<"w">>,
     tags |-> <<>>, location_address |-> <<>>, has_audio |-> FALSE,
     meeting_title |-> <<"w">>] }

CaptureIds == {c.id : c \in Captures}

CaptureOf(id) == CHOOSE c \in Captures : c.id = id

\* "2000-01-01T00:00:00Z", the since of a run that has no checkpoint
EpochTs == 1

\* formatDate: the local calendar day of a timestamp
formatDate(created_at) == created_at \div 2

\* formatMeetingFilename: date, hour and minute, sanitized title or "Mote"
formatMeetingFilename(capture) ==
  <<formatDate(capture.created_at), capture.created_at,
    IF capture.meeting_title # <<>> THEN capture.meeting_title ELSE <<"MOTE">> >>

\* buildMeetingContent: "MFM" is the frontmatter, "TRANS" and "REC" the
\* words of the two section headers
buildMeetingContent(capture, settings) ==
  LET title == IF capture.meeting_title # <<>> THEN capture.meeting_title
               ELSE <<"MOTE">>
  IN  JoinLines(
        << <<"MFM">>, <<>>, <<"#", "SP", "MOTE">>, <<>> >>
        \o (IF title # <<"MOTE">> THEN << <<"**">> \o title \o <<"**">>, <<>> >>
            ELSE <<>>)
        \o << <<"#", "#", "SP", "TRANS">>, <<>>, Trim(capture.text), <<>> >>
        \o (IF settings.showAudioLinks /\ capture.has_audio
            THEN << <<"#", "#", "SP", "REC">>, <<>>,
                    <<"AUDIO">> \o Digits(capture.id) \o <<"AUDIOEND">>, <<>> >>
            ELSE <<>>)
        \o << LegacyMarker(Digits(capture.id)), <<>> >>)

\* getMeetingDailyLink: "LINKOPEN" is 'Mote: [[' with folder, file name and
\* '|', "LINKCLOSE" is ']]'
getMeetingDailyLink(capture) ==
  <<"BUL", "LINKOPEN">>
    \o (IF capture.meeting_title # <<>> THEN capture.meeting_title
        ELSE <<"MOTE">>)
    \o <<"LINKCLOSE", "NL", "SP", "SP">> \o LegacyMarker(Digits(capture.id))

\* the Map byDate of sync(): one group per date in order of first
\* appearance, the captures of a group in page order
RECURSIVE GroupByDate(_, _)
GroupByDate(ids, groups) ==
  IF ids = <<>> THEN groups
  ELSE LET d == formatDate(CaptureOf(Head(ids)).created_at)
           I == {i \in 1..Len(groups) : groups[i].dateStr = d}
       IN  IF I = {}
           THEN GroupByDate(Tail(ids),
                            Append(groups, [dateStr |-> d,
                                            captures |-> <<Head(ids)>>]))
           ELSE GroupByDate(Tail(ids),
                  [groups EXCEPT ![Min(I)].captures = Append(@, Head(ids))])

\* the folders getOrCreateDailyNote makes for dirPath "Journal/Daily/<year>"
DailyFolders == {"Journal", "Journal/Daily", "Journal/Daily/Y"}

\* DEFAULT_SETTINGS.meetingFolder
meetingFolder == "Moten"

\* the order of the daily notes by modification time after a write to d
Touch(order, d) == <<d>> \o SelectSeq(order, LAMBDA x : x # d)

\* a function extended or overwritten at one point
Put(f, k, v) == [x \in DOMAIN f \cup {k} |-> IF x = k THEN v ELSE f[x]]

\* ---------------------------------------------------------------- variables
VARIABLES
  running,            \* SyncEngine.running
  lastSyncTimestamp,  \* settings.lastSyncTimestamp, the checkpoint
  synced,             \* server: ids of the captures marked synced
  daily,              \* vault: day |-> content of the daily note that exists
  meetings,           \* vault: file name |-> content of the meeting note
  folders,            \* vault: the folders that exist
  loc,                \* activation |-> locals and position of a sync() call
  ended,              \* how the last sync() body ended
  lastCall,           \* what became of the last trigger
  runs,               \* sync bodies started so far
  fetched,            \* ids of the captures returned by some syncCaptures
  faults,             \* the calls that fail for now: <<kind, id or day>>
  pageSize,           \* server: the captures a page of syncCaptures holds at most
  appendCalls,        \* capture id |-> appendToSection calls that returned (0, 1, many)
  syncTodos,          \* settings.syncTodos
  todos,              \* server: todo id |-> text, completed, archived, position
  recent,             \* vault: the days of the daily notes, last modified first
  ahist,              \* editor harness: the document before and after each call
  aentries            \* editor harness: the fragment of each call

engineVars ==
  <<running, lastSyncTimestamp, synced, daily, meetings, folders, loc, ended,
    lastCall, runs, fetched, faults, pageSize, appendCalls, syncTodos, todos,
    recent>>

todoVars == <<syncTodos, todos, recent>>

vars == <<engineVars, ahist, aentries>>

\* the activations of sync() that can be in progress at once: a call takes
\* the first free one
Callers == 1..2

FreeSlot == Min({c \in Callers : loc[c].pc = "idle"})

\* the locals of sync() before it is called; start, acked, clean, pages,
\* thrown and unpushed record the checkpoint at the start of the run, the
\* captures acknowledged in it, whether any call of the run has failed, the
\* pages fetched, the date groups of the page in hand that have thrown and
\* the task lines, with their file, whose createTodo or updateTodo failed
IdleLocals ==
  [pc |-> "idle", since |-> 0, captures |-> <<>>, hasMore |-> TRUE,
   byDate |-> <<>>, gi |-> 0, ci |-> 0, ai |-> 0,
   totalSynced |-> 0, totalTodos |-> 0, totalErrors |-> 0,
   start |-> 0, acked |-> {}, clean |-> TRUE, pages |-> 0, thrown |-> {},
   echoById |-> <<>>, noteTodos |-> <<>>, fi |-> 0, li |-> 0, active |-> <<>>,
   created |-> 0, updated |-> 0, errors |-> 0, unpushed |-> {}]

NoRun ==
  [outcome |-> "none", synced |-> 0, todos |-> 0, errors |-> 0,
   start |-> 0, acked |-> {}, clean |-> TRUE, checkpoint |-> 0]

\* the engine before any sync, with an empty vault
EngineIdle ==
  /\ running = FALSE
  /\ lastSyncTimestamp = 0
  /\ synced = {}
  /\ daily = <<>>
  /\ meetings = <<>>
  /\ folders = {}
  /\ loc = [c \in Callers |-> IdleLocals]
  /\ ended = NoRun
  /\ lastCall = "none"
  /\ runs = 0
  /\ fetched = {}
  /\ faults = {}
  /\ pageSize = PageLimit
  /\ appendCalls = [id \in CaptureIds |-> 0]
  /\ syncTodos = FALSE
  /\ todos = <<>>
  /\ recent = <<>>

\* ---------------------------------------------------- section-editor harness
InitEditor ==
  /\ \E d \in EditorDocs : ahist = <<d>>
  /\ aentries = <<>>
  /\ EngineIdle

\* one call appendToSection(file, e.entry) on the harness document
AppendCall(e) ==
  /\ Len(aentries) < MaxCalls
  /\ ahist' = Append(ahist,
                     appendToSection(ahist[Len(ahist)], e.entry, sectionHeader))
  /\ aentries' = Append(aentries, e)
  /\ UNCHANGED engineVars

NextEditor == \E e \in EditorEntries : AppendCall(e)

EditorSpec == InitEditor /\ [][NextEditor]_vars

\* -------------------------------------------- section operations harness
\* a header of depth five, as a user may write one or set settings.sectionHeader
DeepHeader == <<"#", "#", "#", "#", "#", "SP", "X">>

\* documents the section operations are applied to: an empty file, a file
\* with a title only, the skeleton, the skeleton with a todo line of an
\* earlier pass, a file with the robot header and no todo header, a file
\* that ends without a line break in a section of depth two, the skeleton
\* followed by two sections of depth five, a file whose todo section is
\* followed by a section of depth five, and the skeleton with a capture whose
\* text quotes the todo header
SectionDocs ==
  { <<>>, <<"#", "SP", "DATE", "1", "NL">>, createDailyNoteContent(1),
    replaceTodoSection(createDailyNoteContent(1),
                       RenderTodo([id |-> 9, text |-> <<"old">>,
                                   completed |-> FALSE])),
    DocHead \o <<"NL", "NL">> \o robotHeader \o <<"NL">>,
    DocHead \o <<"NL", "NL", "BUL", "w", "NL", "NL", "#", "#", "SP", "N",
                 "NL", "NL", "n">>,
    createDailyNoteContent(1) \o <<"NL">> \o DeepHeader
      \o <<"NL", "NL", "BUL", "x", "NL", "NL", "#", "#", "#", "#", "#", "SP",
           "Y", "NL", "NL", "BUL", "y", "NL">>,
    <<"#", "SP", "DATE", "1", "NL", "NL">> \o todoSectionHeader
      \o <<"NL", "NL">> \o DeepHeader \o <<"NL", "NL", "BUL", "x", "NL">>,
    DocWith(<<"BUL", "w", "SP">> \o todoSectionHeader
              \o <<"NL", "SP", "SP">> \o LegacyMarker(Digits(42))) }

\* the calls made on the harness document: replaceTodoSection with the lines
\* of one todo or of two, appendToSection with the fragment of a capture
\* under the default header or under the header of depth five
SectionCalls ==
  {[op |-> "replace", header |-> todoSectionHeader, entry |-> e] :
     e \in {RenderTodo([id |-> 5, text |-> <<"w">>, completed |-> FALSE]),
            JoinLines(<<RenderTodo([id |-> 3, text |-> <<"w">>,
                                    completed |-> FALSE]),
                        RenderTodo([id |-> 6, text |-> <<"a">>,
                                    completed |-> TRUE])>>)}}
    \cup {[op |-> "append", header |-> h,
           entry |-> formatCapture(PlainCapture(n), DEFAULT_SETTINGS)] :
            h \in {sectionHeader, DeepHeader}, n \in {4, 7}}

InitSection ==
  /\ \E d \in SectionDocs : ahist = <<d>>
  /\ aentries = <<>>
  /\ EngineIdle

\* one call replaceTodoSection(file, e) on the harness document
ReplaceCall(e) ==
  /\ Len(aentries) < MaxCalls
  /\ ahist' = Append(ahist, replaceTodoSection(ahist[Len(ahist)], e))
  /\ aentries' = Append(aentries, [op |-> "replace",
                                   header |-> todoSectionHeader, entry |-> e])
  /\ UNCHANGED engineVars

\* one call appendToSection(file, e, h) on the harness document
AppendUnder(h, e) ==
  /\ Len(aentries) < MaxCalls
  /\ ahist' = Append(ahist, appendToSection(ahist[Len(ahist)], e, h))
  /\ aentries' = Append(aentries, [op |-> "append", header |-> h, entry |-> e])
  /\ UNCHANGED engineVars

NextSection ==
  \/ \E k \in {c \in SectionCalls : c.op = "replace"} : ReplaceCall(k.entry)
  \/ \E k \in {c \in SectionCalls : c.op = "append"} :
       AppendUnder(k.header, k.entry)

SectionSpec == InitSection /\ [][NextSection]_vars

\* the positions of s at which a header line starts: one to six "#" and a
\* blank at the start of a line
HeaderStarts(s) ==
  {i \in 1..Len(s) :
     /\ i = 1 \/ s[i - 1] = "NL"
     /\ \E d \in 1..6 : /\ i + d <= Len(s)
                        /\ \A k \in 0..(d - 1) : s[i + k] = "#"
                        /\ s[i + d] = "SP"}

\* the sections of s in order, each from its header line to the line before
\* the next header line and without the blank lines that end it; the first
\* is the text before the first header
Sections(s) ==
  LET RECURSIVE From(_)
      From(i) ==
        LET later == {j \in HeaderStarts(s) : j > i}
        IN  IF later = {} THEN <<TrimEnd(Substring(s, i))>>
            ELSE <<TrimEnd(SubSeq(s, i, Min(later) - 1))>> \o From(Min(later))
  IN  IF 1 \in HeaderStarts(s) THEN << <<>> >> \o From(1) ELSE From(1)

\* ------------------------------------------------------------- sync engine
\* the calls that the environment can make fail: the capture fetch, the
\* creation of a day's note, the meeting note or the fragment of a capture,
\* the acknowledgment of a capture, the first and the second todo fetch,
\* the read of a note in the scan, createTodo and updateTodo, the rewrite of
\* a task line and the write of today's todo section
FaultKinds ==
  {<<"fetch", 0>>} \cup {<<"open", d>> : d \in {formatDate(c.created_at) : c \in Captures}}
    \cup {<<"meet", c.id>> : c \in {x \in Captures : x.type = "meeting"}}
    \cup {<<k, id>> : k \in {"append", "ack"}, id \in CaptureIds}
    \cup {<<"todos", 0>>, <<"todos", 1>>, <<"scan", 0>>, <<"push", 0>>,
          <<"rewrite", 0>>, <<"write", 0>>}

\* counters saturate at MaxCount so that a run that repeats a page for ever
\* is a cycle of states
Bump(x, n) == IF x + n > MaxCount THEN MaxCount ELSE x + n

\* the sequences of n distinct elements of S
Arrangements(S, n) ==
  {p \in [1..n -> S] : \A i, j \in 1..n : i # j => p[i] # p[j]}

\* Remote Service, GET /api/sync?since=&limit=: the unsynced captures
\* created after since
Unsynced(since) ==
  {id \in CaptureIds \ synced : CaptureOf(id).created_at > since}

\* a sync() whose flag is cleared on return only, not in a finally block
Finish_ReturnOnly(c, L, how, cp) ==
  /\ running' = (how = "threw")
  /\ loc' = [loc EXCEPT ![c] = IdleLocals]
  /\ ended' = [outcome |-> how, synced |-> L.totalSynced,
                todos |-> L.totalTodos, errors |-> L.totalErrors,
                start |-> L.start, acked |-> L.acked, clean |-> L.clean,
                checkpoint |-> cp]

\* sync() returns or throws: the finally block clears the flag
Finish(c, L, how, cp) ==
  /\ running' = FALSE
  /\ loc' = [loc EXCEPT ![c] = IdleLocals]
  /\ ended' = [outcome |-> how, synced |-> L.totalSynced,
                todos |-> L.totalTodos, errors |-> L.totalErrors,
                start |-> L.start, acked |-> L.acked, clean |-> L.clean,
                checkpoint |-> cp]

\* sync() goes on to its next await with the locals L
Continue(c, L) ==
  /\ loc' = [loc EXCEPT ![c] = L]
  /\ UNCHANGED <<running, ended>>

\* a sync() that calls todoSync.sync() whatever the setting is
AfterLoop_Always(c, L, cp) == Continue(c, [L EXCEPT !.pc = "todo"])

\* the pagination loop is left: todoSync.sync() is called if syncTodos is
\* set, else sync() returns
AfterLoop(c, L, cp) ==
  IF syncTodos THEN Continue(c, [L EXCEPT !.pc = "todo"])
  ELSE Finish(c, L, "returned", cp)

\* a sync() without the test of the running flag
SyncCall_NoGuard ==
  /\ \E c \in Callers : loc[c].pc = "idle"
  /\ runs < MaxRuns
  /\ running' = TRUE
  /\ runs' = runs + 1
  /\ lastCall' = "accepted"
  /\ loc' = [loc EXCEPT ![FreeSlot] =
               [IdleLocals EXCEPT
                  !.pc = "fetch",
                  !.since = IF lastSyncTimestamp # 0
                            THEN lastSyncTimestamp ELSE EpochTs,
                  !.start = lastSyncTimestamp]]
  /\ UNCHANGED <<lastSyncTimestamp, synced, daily, meetings, folders, ended,
                 fetched, faults, pageSize, appendCalls, todoVars, ahist,
                 aentries>>

\* sync() from its first line to its first await: the single-flight test,
\* the flag, the locals and since
SyncCall ==
  /\ \E c \in Callers : loc[c].pc = "idle"
  /\ IF running
     THEN /\ lastCall' = "rejected"
          /\ UNCHANGED <<running, loc, runs>>
     ELSE /\ runs < MaxRuns
          /\ running' = TRUE
          /\ runs' = runs + 1
          /\ lastCall' = "accepted"
          /\ loc' = [loc EXCEPT ![FreeSlot] =
                       [IdleLocals EXCEPT
                          !.pc = "fetch",
                          !.since = IF lastSyncTimestamp # 0
                                    THEN lastSyncTimestamp ELSE EpochTs,
                          !.start = lastSyncTimestamp]]
  /\ UNCHANGED <<lastSyncTimestamp, synced, daily, meetings, folders, ended,
                 fetched, faults, pageSize, appendCalls, todoVars, ahist,
                 aentries>>

\* runSync up to its await of sync(), for the timer (showNotice false) and
\* for 'Sync Now' (showNotice true): nothing is called while isRunning()
RunSync(showNotice) ==
  IF running
  THEN /\ lastCall' = "skipped"
       /\ UNCHANGED <<running, lastSyncTimestamp, synced, daily, meetings,
                      folders, loc, ended, runs, fetched, faults, pageSize,
                      appendCalls, todoVars, ahist, aentries>>
  ELSE SyncCall

\* await this.api.syncCaptures(since, 100) completes; an empty page leaves
\* the loop, any other page is grouped by date
Fetch(c) ==
  LET L == loc[c]
      U == Unsynced(L.since)
      n == IF Cardinality(U) > pageSize THEN pageSize ELSE Cardinality(U)
  IN  /\ L.pc = "fetch"
      /\ UNCHANGED <<lastSyncTimestamp, synced, daily, meetings, folders,
                     lastCall, runs, faults, pageSize, appendCalls, todoVars, ahist,
                     aentries>>
      /\ IF <<"fetch", 0>> \in faults
         THEN /\ Finish(c, [L EXCEPT !.clean = FALSE], "threw",
                        lastSyncTimestamp)
              /\ UNCHANGED fetched
         ELSE \E page \in Arrangements(U, n) :
              /\ fetched' = fetched \cup {page[i] : i \in 1..n}
              /\ IF n = 0
                 THEN AfterLoop(c, [L EXCEPT !.hasMore = FALSE],
                                lastSyncTimestamp)
                 ELSE Continue(c, [L EXCEPT
                        !.pc = "group",
                        !.pages = Bump(L.pages, 1),
                        !.hasMore = Cardinality(U) > pageSize,
                        !.captures = page,
                        !.byDate = GroupByDate(page, <<>>),
                        !.gi = 1, !.ci = 0, !.thrown = {}])

\* the date group in hand is done or has thrown: the next group, or the
\* acknowledgments of the page
NextGroup(L) ==
  IF L.gi < Len(L.byDate)
  THEN [L EXCEPT !.gi = L.gi + 1, !.ci = 0]
  ELSE [L EXCEPT !.pc = "ack", !.ai = 1]

\* a catch that counts one error for the group
GroupFailed_One(L) ==
  NextGroup([L EXCEPT !.totalErrors = Bump(L.totalErrors, 1),
                      !.clean = FALSE, !.thrown = L.thrown \cup {L.gi}])

\* a catch that leaves the page when its last group has thrown
GroupFailed_NoAck(L) ==
  LET M == [L EXCEPT
              !.totalErrors = Bump(L.totalErrors, Len(L.byDate[L.gi].captures)),
              !.clean = FALSE, !.thrown = L.thrown \cup {L.gi}]
  IN  IF L.gi < Len(L.byDate) THEN NextGroup(M) ELSE [M EXCEPT !.pc = "fetch"]

\* catch of the date-group loop: one error per capture of the group
GroupFailed(L) ==
  NextGroup([L EXCEPT
    !.totalErrors = Bump(L.totalErrors, Len(L.byDate[L.gi].captures)),
    !.clean = FALSE, !.thrown = L.thrown \cup {L.gi}])

\* a getOrCreateDailyNote that writes the skeleton whether or not the note
\* exists
getOrCreateDailyNote_Retemplate(dateStr) ==
  Put(daily, dateStr, createDailyNoteContent(dateStr))

\* getOrCreateDailyNote: the daily notes after a call that returns
getOrCreateDailyNote(dateStr) ==
  IF dateStr \in DOMAIN daily THEN daily
  ELSE Put(daily, dateStr, createDailyNoteContent(dateStr))

\* getOrCreateDailyNote: the folders after a call that got as far as the
\* folder loop
EnsureDailyFolders(dateStr) ==
  IF dateStr \in DOMAIN daily \/ "Journal/Daily/Y" \in folders THEN folders
  ELSE folders \cup DailyFolders

\* processDateGroup, its first await: the daily note of the group is found
\* or created, or the vault throws before or after the folders are made
OpenGroup(c) ==
  LET L == loc[c]
      d == L.byDate[L.gi].dateStr
  IN  /\ L.pc = "group" /\ L.ci = 0
      /\ UNCHANGED <<lastSyncTimestamp, synced, meetings, lastCall, runs,
                     fetched, faults, pageSize, appendCalls, syncTodos, todos, ahist,
                     aentries>>
      /\ IF d \notin DOMAIN daily /\ <<"open", d>> \in faults
         THEN /\ folders' \in {folders, EnsureDailyFolders(d)}
              /\ UNCHANGED <<daily, recent>>
              /\ Continue(c, GroupFailed(L))
         ELSE /\ daily' = getOrCreateDailyNote(d)
              /\ folders' = EnsureDailyFolders(d)
              /\ recent' = IF d \in DOMAIN daily THEN recent
                           ELSE Touch(recent, d)
              /\ Continue(c, [L EXCEPT !.ci = 1])

\* createMeetingNote finds the note of this capture at its path
MeetingNoteFound(capture) ==
  /\ formatMeetingFilename(capture) \in DOMAIN meetings
  /\ Includes(meetings[formatMeetingFilename(capture)],
              LegacyMarker(Digits(capture.id)))

\* a createMeetingNote that writes the templated body over a note that
\* carries the capture's marker
createMeetingNote_Overwrite(capture) ==
  Put(meetings, formatMeetingFilename(capture),
      buildMeetingContent(capture, DEFAULT_SETTINGS))

\* createMeetingNote: the meeting notes after a call that returns
createMeetingNote(capture) ==
  IF MeetingNoteFound(capture) THEN meetings
  ELSE Put(meetings, formatMeetingFilename(capture),
           buildMeetingContent(capture, DEFAULT_SETTINGS))

\* vault.create throws when a file exists at the path
CreateMeetingThrows(capture) ==
  /\ ~MeetingNoteFound(capture)
  /\ formatMeetingFilename(capture) \in DOMAIN meetings

\* a processDateGroup that appends the formatted body for a meeting too
FragmentOf_Body(capture) == formatCapture(capture, DEFAULT_SETTINGS)

\* the fragment processDateGroup appends for a capture
FragmentOf(capture) ==
  IF capture.type = "meeting" THEN getMeetingDailyLink(capture)
  ELSE formatCapture(capture, DEFAULT_SETTINGS)

\* processDateGroup, one turn of its loop: the meeting note for a meeting,
\* then the fragment appended to the daily note; a throw at either call
\* ends the group
ProcessCapture(c) ==
  LET L == loc[c]
      g == L.byDate[L.gi]
      capture == CaptureOf(g.captures[L.ci])
      isMeeting == capture.type = "meeting"
      done == IF L.ci < Len(g.captures) THEN [L EXCEPT !.ci = L.ci + 1]
              ELSE NextGroup(L)
  IN  /\ L.pc = "group" /\ L.ci >= 1
      /\ UNCHANGED <<lastSyncTimestamp, synced, lastCall, runs, fetched, faults, pageSize,
                     syncTodos, todos, ahist, aentries>>
      /\ IF isMeeting
            /\ (CreateMeetingThrows(capture) \/ <<"meet", capture.id>> \in faults)
         THEN /\ folders' \in {folders,
                               IF MeetingNoteFound(capture) THEN folders
                               ELSE folders \cup {meetingFolder}}
              /\ UNCHANGED <<daily, meetings, appendCalls, recent>>
              /\ Continue(c, GroupFailed(L))
         ELSE /\ meetings' = IF isMeeting THEN createMeetingNote(capture)
                             ELSE meetings
              /\ folders' = IF isMeeting /\ ~MeetingNoteFound(capture)
                            THEN folders \cup {meetingFolder} ELSE folders
              /\ IF <<"append", capture.id>> \in faults
                 THEN /\ UNCHANGED <<daily, appendCalls, recent>>
                      /\ Continue(c, GroupFailed(L))
                 ELSE /\ daily' = Put(daily, g.dateStr,
                                      appendToSection(daily[g.dateStr],
                                                      FragmentOf(capture),
                                                      sectionHeader))
                      /\ appendCalls' =
                           [appendCalls EXCEPT ![capture.id] =
                              IF @ < 2 THEN @ + 1 ELSE @]
                      /\ recent' = IF daily' = daily THEN recent
                                   ELSE Touch(recent, g.dateStr)
                      /\ Continue(c, done)

\* a checkpoint that takes the timestamp of every acknowledged capture
TrackLatest_Last(checkpoint, created_at) == created_at

\* a checkpoint that is set once and never raised
TrackLatest_Once(checkpoint, created_at) ==
  IF checkpoint = 0 THEN created_at ELSE checkpoint

\* "Track the latest timestamp": the checkpoint after an acknowledged capture
TrackLatest(checkpoint, created_at) ==
  IF checkpoint = 0 \/ created_at > checkpoint THEN created_at
  ELSE checkpoint

\* await this.api.markSynced(capture.id) completes for the capture in hand:
\* counted and the checkpoint raised, or one error; after the last capture
\* of the page the loop goes round or is left
Ack(c) ==
  LET L == loc[c]
      capture == CaptureOf(L.captures[L.ai])
      after(M) == IF L.ai < Len(L.captures) THEN [M EXCEPT !.ai = L.ai + 1]
                  ELSE [M EXCEPT !.pc = "fetch"]
      last == L.ai = Len(L.captures) /\ ~L.hasMore
  IN  /\ L.pc = "ack"
      /\ UNCHANGED <<daily, meetings, folders, lastCall, runs, fetched, faults, pageSize,
                     appendCalls, todoVars, ahist, aentries>>
      /\ IF <<"ack", capture.id>> \notin faults
         THEN LET M == [L EXCEPT !.totalSynced = Bump(L.totalSynced, 1),
                                 !.acked = L.acked \cup {capture.id}]
                  cp == TrackLatest(lastSyncTimestamp, capture.created_at)
              IN  /\ synced' = synced \cup {capture.id}
                  /\ lastSyncTimestamp' = cp
                  /\ IF last THEN AfterLoop(c, M, cp)
                     ELSE Continue(c, after(M))
         ELSE LET M == [L EXCEPT !.totalErrors = Bump(L.totalErrors, 1),
                                 !.clean = FALSE]
              IN  /\ UNCHANGED <<synced, lastSyncTimestamp>>
                  /\ IF last THEN AfterLoop(c, M, lastSyncTimestamp)
                     ELSE Continue(c, after(M))

\* --------------------------------------------------------- todo reconciler
\* formatDate(new Date().toISOString()): the day the sync runs on
today == 2

\* .slice(0, 30): the daily notes scanDailyNotes reads
ScanWindow == 30

\* a getTodos that asks for the archived todos too
GetTodos_WithArchived == DOMAIN todos

\* Remote Service, GET /api/todos without include_archived
GetTodos == {id \in DOMAIN todos : ~todos[id].archived}

\* Remote Service, POST /api/todos: the todo created for a text
NewTodo(text) ==
  [text |-> text, completed |-> FALSE, archived |-> FALSE,
   position |-> Max({0} \cup {todos[i].position : i \in DOMAIN todos}) + 1]

NewTodoId == Max({0} \cup DOMAIN todos) + 1

\* a reconciler that leaves the ids it has handled in echoById
Without_Keep(f, K) == f

\* a function without the points of K
Without(f, K) == [x \in DOMAIN f \ K |-> f[x]]

\* scanDailyNotes: the task lines of the daily notes modified last, at most
\* ScanWindow of them, the notes without a task line left out
ScanDailyNotes ==
  LET n == IF Len(recent) > ScanWindow THEN ScanWindow ELSE Len(recent)
      RECURSIVE From(_)
      From(i) ==
        IF i > n THEN <<>>
        ELSE IF parseTodosFromContent(daily[recent[i]]) # <<>>
        THEN <<[filePath |-> recent[i],
                todos |-> parseTodosFromContent(daily[recent[i]])]>>
               \o From(i + 1)
        ELSE From(i + 1)
  IN  From(1)

\* todos.sort((a, b) => a.position - b.position) of the ids in S
RECURSIVE SortByPosition(_)
SortByPosition(S) ==
  IF S = {} THEN <<>>
  ELSE LET m == CHOOSE i \in S : \A j \in S : todos[i].position <= todos[j].position
       IN  <<m>> \o SortByPosition(S \ {m})

\* a todo pass whose structural failure is counted with the failures of
\* its lines and whose counts are returned
TodoThrew_Counted(c, L) ==
  Finish(c, [L EXCEPT !.totalTodos = Bump(L.created, L.updated),
                      !.totalErrors = Bump(L.totalErrors, Bump(L.errors, 1)),
                      !.clean = FALSE],
         "returned", lastSyncTimestamp)

\* TodoSync.sync() threw: the catch of sync() counts one error and sync()
\* returns
TodoThrew(c, L) ==
  Finish(c, [L EXCEPT !.totalErrors = Bump(L.totalErrors, 1), !.clean = FALSE],
         "returned", lastSyncTimestamp)

\* TodoSync.sync() returned {created, updated, errors}
TodoReturned(c, L) ==
  Finish(c, [L EXCEPT !.totalTodos = Bump(L.created, L.updated),
                      !.totalErrors = Bump(L.totalErrors, L.errors)],
         "returned", lastSyncTimestamp)

\* TodoSync.sync, step 1: await this.api.getTodos() completes; step 3, the
\* lookup echoById
TodoFetch(c) ==
  LET L == loc[c]
  IN  /\ L.pc = "todo"
      /\ UNCHANGED <<lastSyncTimestamp, synced, daily, meetings, folders,
                     lastCall, runs, fetched, faults, pageSize, appendCalls, todoVars,
                     ahist, aentries>>
      /\ IF <<"todos", 0>> \in faults THEN TodoThrew(c, L)
         ELSE Continue(c, [L EXCEPT
                !.pc = "t_scan",
                !.echoById = [id \in GetTodos |-> todos[id].completed]])

\* TodoSync.sync, step 2: await this.scanDailyNotes() completes; the read
\* of a note in the scan can throw when there is a note to read
TodoScan(c) ==
  LET L == loc[c]
  IN  /\ L.pc = "t_scan"
      /\ UNCHANGED <<lastSyncTimestamp, synced, daily, meetings, folders,
                     lastCall, runs, fetched, faults, pageSize, appendCalls, todoVars,
                     ahist, aentries>>
      /\ IF <<"scan", 0>> \in faults /\ recent # <<>> THEN TodoThrew(c, L)
         ELSE Continue(c, [L EXCEPT
                !.noteTodos = ScanDailyNotes,
                !.pc = IF ScanDailyNotes = <<>> THEN "t_refetch" ELSE "t_line",
                !.fi = 1, !.li = 1])

\* a catch of the line loop that does not count the error
LineFailed_Silent(L) == [L EXCEPT !.clean = FALSE]

\* catch of the line loop: one error for the line
LineFailed(L) == [L EXCEPT !.errors = Bump(L.errors, 1), !.clean = FALSE]

\* a reconciler that pushes a checked line only, never an unchecked one
StateDiffers_CheckedOnly(echoCompleted, localCompleted) ==
  localCompleted /\ ~echoCompleted

\* echoTodo.completed !== ot.completed
StateDiffers(echoCompleted, localCompleted) == echoCompleted # localCompleted

\* TodoSync.sync, step 4, one task line: a linked line whose state differs
\* from the remote todo's is pushed with updateTodo, an unlinked line is
\* created remotely and its line rewritten; a throw counts one error
ReconcileLine(c) ==
  LET L == loc[c]
      file == L.noteTodos[L.fi]
      ot == file.todos[L.li]
      \* the next line, the next file after the ids of this file are
      \* deleted from echoById, or step 5
      next(M) ==
        IF L.li < Len(file.todos) THEN [M EXCEPT !.li = L.li + 1]
        ELSE LET ids == {file.todos[i].echoId : i \in 1..Len(file.todos)}
                 M2 == [M EXCEPT !.echoById = Without(M.echoById, ids)]
             IN  IF L.fi < Len(L.noteTodos)
                 THEN [M2 EXCEPT !.fi = L.fi + 1, !.li = 1]
                 ELSE [M2 EXCEPT !.pc = "t_refetch"]
      failed == LineFailed(L)
      refused == [failed EXCEPT
                    !.unpushed = @ \cup {<<file.filePath, ot.line>>}]
      deleted == [L EXCEPT !.echoById = Without(L.echoById, {ot.echoId})]
      differs == /\ ot.echoId \in DOMAIN L.echoById
                 /\ StateDiffers(L.echoById[ot.echoId], ot.completed)
  IN  /\ L.pc = "t_line"
      /\ UNCHANGED <<running, ended, lastSyncTimestamp, synced, meetings,
                     folders, lastCall, runs, fetched, faults, pageSize, appendCalls,
                     syncTodos, ahist, aentries>>
      /\ IF ot.echoId # 0
         THEN /\ UNCHANGED <<daily, recent>>
              /\ IF differs /\ <<"push", 0>> \in faults
                 THEN /\ UNCHANGED todos
                      /\ loc' = [loc EXCEPT ![c] = next(refused)]
                 ELSE /\ todos' = IF differs
                                  THEN [todos EXCEPT ![ot.echoId].completed =
                                          ot.completed]
                                  ELSE todos
                      /\ loc' = [loc EXCEPT ![c] =
                                   next([deleted EXCEPT !.updated =
                                           IF differs THEN Bump(L.updated, 1)
                                           ELSE L.updated])]
         ELSE IF <<"push", 0>> \in faults
         THEN /\ UNCHANGED <<todos, daily, recent>>
              /\ loc' = [loc EXCEPT ![c] = next(refused)]
         ELSE /\ todos' = Put(todos, NewTodoId, NewTodo(ot.text))
              /\ IF file.filePath \in DOMAIN daily /\ <<"rewrite", 0>> \in faults
                 THEN /\ UNCHANGED <<daily, recent>>
                      /\ loc' = [loc EXCEPT ![c] = next(failed)]
                 ELSE /\ daily' =
                           IF file.filePath \in DOMAIN daily
                           THEN Put(daily, file.filePath,
                                    addMarkerToLine(daily[file.filePath],
                                                    ot.lineIndex, ot.line,
                                                    NewTodoId))
                           ELSE daily
                      /\ recent' = IF daily' = daily THEN recent
                                   ELSE Touch(recent, file.filePath)
                      /\ loc' = [loc EXCEPT ![c] =
                                   next([L EXCEPT !.created =
                                           Bump(L.created, 1)])]

\* TodoSync.sync, step 5: the re-fetch completes and the active todos are
\* kept; writeTodosToDaily returns at once when there is none
TodoRefetch(c) ==
  LET L == loc[c]
      activeIds == {id \in GetTodos : ~todos[id].completed}
      snapshot == [i \in 1..Cardinality(activeIds) |->
                     [id |-> SortByPosition(activeIds)[i],
                      text |-> todos[SortByPosition(activeIds)[i]].text,
                      completed |-> FALSE]]
  IN  /\ L.pc = "t_refetch"
      /\ UNCHANGED <<lastSyncTimestamp, synced, daily, meetings, folders,
                     lastCall, runs, fetched, faults, pageSize, appendCalls, todoVars,
                     ahist, aentries>>
      /\ IF <<"todos", 1>> \in faults THEN TodoThrew(c, L)
         ELSE IF activeIds = {} THEN TodoReturned(c, L)
         ELSE Continue(c, [L EXCEPT !.pc = "t_write", !.active = snapshot])

\* writeTodosToDaily: today's note is found or created and its todo section
\* replaced by one line per active todo
TodoWrite(c) ==
  LET L == loc[c]
      todoLines == JoinLines([i \in 1..Len(L.active) |-> RenderTodo(L.active[i])])
  IN  /\ L.pc = "t_write"
      /\ UNCHANGED <<lastSyncTimestamp, synced, meetings, lastCall, runs,
                     fetched, faults, pageSize, appendCalls, syncTodos, todos, ahist,
                     aentries>>
      /\ IF <<"write", 0>> \in faults
         THEN /\ \/ UNCHANGED <<daily, folders, recent>>
                 \/ /\ today \notin DOMAIN daily
                    /\ daily' = getOrCreateDailyNote(today)
                    /\ folders' = EnsureDailyFolders(today)
                    /\ recent' = Touch(recent, today)
              /\ TodoThrew(c, L)
         ELSE /\ daily' = Put(daily, today,
                              replaceTodoSection(
                                getOrCreateDailyNote(today)[today], todoLines))
              /\ folders' = EnsureDailyFolders(today)
              /\ recent' = Touch(recent, today)
              /\ TodoReturned(c, L)

\* the environment: a call that failed so far works from now on
Repair(f) ==
  /\ f \in faults
  /\ faults' = faults \ {f}
  /\ UNCHANGED <<pageSize, running, lastSyncTimestamp, synced, daily, meetings, folders,
                 loc, ended, lastCall, runs, fetched, appendCalls, todoVars,
                 ahist, aentries>>

\* ------------------------------------------------------------ specification
\* a daily note of day 1 as an earlier version left it: a capture line with
\* a compact marker for capture 42, and in the todo section one task line
\* not yet linked and one checked line linked to todo 5
OldDailyNote ==
  replaceTodoSection(
    DocWith(<<"BUL", "w", "SP">> \o CompactMarker(Digits(42))),
    JoinLines(<< <<"TASK0", "MIC", "SP", "w">>,
                 <<"TASKX", "MIC", "SP", "w", "SP">> \o TapeMark
                   \o <<"t", "SP">> \o Digits(5) >>))

Init ==
  /\ running = FALSE
  /\ lastSyncTimestamp = 0
  /\ synced = {}
  /\ \/ daily = <<>> /\ folders = {} /\ recent = <<>>
     \/ /\ daily = [d \in {1} |-> OldDailyNote]
        /\ folders = DailyFolders
        /\ recent = <<1>>
  /\ meetings = <<>>
  /\ loc = [c \in Callers |-> IdleLocals]
  /\ ended = NoRun
  /\ lastCall = "none"
  /\ runs = 0
  /\ fetched = {}
  /\ faults \in {F \in SUBSET FaultKinds : Cardinality(F) <= MaxFaults}
  /\ pageSize = PageLimit
  /\ appendCalls = [id \in CaptureIds |-> 0]
  /\ syncTodos \in BOOLEAN
  /\ todos = [id \in {5} |-> [text |-> <<"w">>, completed |-> FALSE,
                              archived |-> FALSE, position |-> 1]]
  /\ ahist = <<>>
  /\ aentries = <<>>

Next ==
  \/ \E showNotice \in BOOLEAN : RunSync(showNotice)
  \/ SyncCall
  \/ \E c \in Callers : Fetch(c)
  \/ \E c \in Callers : OpenGroup(c)
  \/ \E c \in Callers : ProcessCapture(c)
  \/ \E c \in Callers : Ack(c)
  \/ \E c \in Callers : TodoFetch(c)
  \/ \E c \in Callers : TodoScan(c)
  \/ \E c \in Callers : ReconcileLine(c)
  \/ \E c \in Callers : TodoRefetch(c)
  \/ \E c \in Callers : TodoWrite(c)
  \/ \E f \in FaultKinds : Repair(f)

Spec == Init /\ [][Next]_vars

\* the sync bodies between their first and their last line
Busy == {c \in Callers : loc[c].pc # "idle"}

\* the awaits of a running sync() complete: the calls it waits for answer
\* or fail, and the event loop resumes it
BodyStep ==
  \E c \in Callers :
    \/ Fetch(c) \/ OpenGroup(c) \/ ProcessCapture(c) \/ Ack(c)
    \/ TodoFetch(c) \/ TodoScan(c) \/ ReconcileLine(c) \/ TodoRefetch(c)
    \/ TodoWrite(c)

\* a step of a sync body that executes: its locals change, as they do at
\* every await and, an instance of it, when the body ends
BodyAdvances ==
  /\ Busy # {}
  /\ (loc' = [c \in Callers |-> IdleLocals] \/ loc' # loc)

\* the event loop resumes a body whose await has completed: a body that
\* executes eventually takes its next step
FairSpec == Spec /\ WF_loc(BodyAdvances)

\* the steps that change the locals of a body that executes are the steps
\* of BodyStep
BodyAdvancesIsBodyStep ==
  [][(Busy # {} /\ loc' # loc) <=> BodyStep]_vars

\* the latest creation timestamp among the captures of ids, or floor
LatestOf(ids, floor) ==
  Max({floor} \cup {CaptureOf(id).created_at : id \in ids})

\* ------------------------------------------------ pages of several captures
\* the meeting notes of a vault before a sync, at the path derived for
\* capture 7: none, the note of capture 7 with a line the user added, or the
\* note of another meeting capture of the same title and the same minute
MeetingVaults ==
  LET m == CaptureOf(7)
      f == formatMeetingFilename(m)
  IN  { <<>>,
        [x \in {f} |-> buildMeetingContent(m, DEFAULT_SETTINGS)
                         \o <<"x", "NL">>],
        [x \in {f} |-> buildMeetingContent([m EXCEPT !.id = 70],
                                           DEFAULT_SETTINGS)] }

\* the Remote Service answers with pages of up to WidePage captures; the
\* vault holds no daily note, syncTodos is off, and up to MaxFaults + 1 calls
\* of the capture stage fail
InitPage ==
  /\ running = FALSE
  /\ lastSyncTimestamp = 0
  /\ synced = {}
  /\ daily = <<>> /\ recent = <<>>
  /\ meetings \in MeetingVaults
  /\ folders = IF meetings = <<>> THEN {} ELSE {meetingFolder}
  /\ loc = [c \in Callers |-> IdleLocals]
  /\ ended = NoRun
  /\ lastCall = "none"
  /\ runs = 0
  /\ fetched = {}
  /\ faults \in {F \in SUBSET {f \in FaultKinds :
                                  f[1] \in {"open", "meet", "append", "ack"}} :
                   Cardinality(F) <= MaxFaults + 1}
  /\ pageSize = WidePage
  /\ appendCalls = [id \in CaptureIds |-> 0]
  /\ syncTodos = FALSE
  /\ todos = <<>>
  /\ ahist = <<>>
  /\ aentries = <<>>

NextPage ==
  \/ SyncCall
  \/ \E c \in Callers : Fetch(c)
  \/ \E c \in Callers : OpenGroup(c)
  \/ \E c \in Callers : ProcessCapture(c)
  \/ \E c \in Callers : Ack(c)
  \/ \E f \in FaultKinds : Repair(f)

PageSpec == InitPage /\ [][NextPage]_vars

\* ------------------------------------------- reconciler on its own inputs
\* a task line of a daily note: unchecked or checked, with the emblem, and
\* linked to the todo id unless id is 0
TaskLine(checked, text, id) ==
  <<IF checked THEN "TASKX" ELSE "TASK0", "MIC", "SP">> \o text
    \o (IF id = 0 THEN <<>>
        ELSE <<"SP">> \o TapeMark \o <<"t", "SP">> \o Digits(id))

\* a daily note of day 1 whose todo section holds two task lines not yet
\* linked, a checked line linked to todo 5 and an unchecked line linked to
\* todo 3
LinkNote ==
  replaceTodoSection(
    createDailyNoteContent(1),
    JoinLines(<< TaskLine(FALSE, <<"a">>, 0), TaskLine(FALSE, <<"b">>, 0),
                 TaskLine(TRUE, <<"w">>, 5), TaskLine(FALSE, <<"w">>, 3) >>))

\* today's note with a todo section an earlier pass wrote: the line of a
\* todo 9 that the Remote Service no longer lists
StaleToday ==
  replaceTodoSection(createDailyNoteContent(today),
                     TaskLine(FALSE, <<"old">>, 9))

\* the vaults the reconciler is run on: day 1 absent, as an earlier version
\* left it or with LinkNote, today's note absent or stale; and the vault of
\* a user who checked todo 5 today: the todo section of day 1 holds the
\* lines of todos 5 and 3 as the pass of that day wrote them, today's holds
\* the line of 5 checked and the line of 3; and a note of day 1 in which
\* the checked line of todo 5 was copied, so that two lines carry its id
TodoVaults ==
  {[d \in D1 \cup D2 |-> IF d = 1 THEN n1 ELSE StaleToday] :
     <<D1, n1>> \in {<<{}, <<>>>>, <<{1}, OldDailyNote>>, <<{1}, LinkNote>>},
     D2 \in {{}, {today}}}
    \cup {[d \in {1, today} |->
             replaceTodoSection(
               createDailyNoteContent(d),
               JoinLines(<< TaskLine(d = today, <<"w">>, 5),
                            TaskLine(FALSE, <<"w">>, 3) >>))]}
    \cup {[d \in {1} |->
             replaceTodoSection(
               createDailyNoteContent(d),
               JoinLines(<< TaskLine(TRUE, <<"w">>, 5),
                            TaskLine(TRUE, <<"x">>, 5) >>))]}

\* the todo lists of the Remote Service: none, todo 5 archived, todo 5 open
\* or completed, and todos 3 and 5 with 5 before 3 in position, 3 open or
\* completed
RemoteSets ==
  { <<>>,
    [id \in {5} |-> [text |-> <<"w">>, completed |-> FALSE,
                     archived |-> TRUE, position |-> 1]] }
    \cup {[id \in {5} |-> [text |-> <<"w">>, completed |-> b,
                           archived |-> FALSE, position |-> 1]] :
            b \in BOOLEAN}
    \cup {[id \in {3, 5} |-> [text |-> <<"w">>, completed |-> (b /\ id = 3),
                              archived |-> FALSE,
                              position |-> IF id = 3 THEN 2 ELSE 1]] :
            b \in BOOLEAN}

\* the plugin with syncTodos on and every capture acknowledged by an
\* earlier sync: each sync() fetches an empty page and runs the reconciler
InitTodo ==
  /\ running = FALSE
  /\ lastSyncTimestamp = LatestOf(CaptureIds, 0)
  /\ synced = CaptureIds
  /\ fetched = CaptureIds
  /\ daily \in TodoVaults
  /\ folders = IF DOMAIN daily = {} THEN {} ELSE DailyFolders
  /\ recent = IF DOMAIN daily = {1, today} THEN <<today, 1>>
              ELSE IF DOMAIN daily = {1} THEN <<1>>
              ELSE IF DOMAIN daily = {today} THEN <<today>> ELSE <<>>
  /\ meetings = <<>>
  /\ loc = [c \in Callers |-> IdleLocals]
  /\ ended = NoRun
  /\ lastCall = "none"
  /\ runs = 0
  /\ faults \in {F \in SUBSET {f \in FaultKinds :
                                  f[1] \in {"todos", "scan", "push", "rewrite", "write"}} :
                   Cardinality(F) <= MaxFaults}
  /\ pageSize = PageLimit
  /\ appendCalls = [id \in CaptureIds |-> 0]
  /\ syncTodos = TRUE
  /\ todos \in RemoteSets
  /\ ahist = <<>>
  /\ aentries = <<>>

NextTodo ==
  \/ SyncCall
  \/ \E c \in Callers : Fetch(c)
  \/ \E c \in Callers : TodoFetch(c)
  \/ \E c \in Callers : TodoScan(c)
  \/ \E c \in Callers : ReconcileLine(c)
  \/ \E c \in Callers : TodoRefetch(c)
  \/ \E c \in Callers : TodoWrite(c)
  \/ \E f \in FaultKinds : Repair(f)

TodoSpec == InitTodo /\ [][NextTodo]_vars

\* --------------------------------------------- marker rewrite harness
\* files in which the scan finds a task line that is not linked: the line
\* alone, the line between two lines of text, and two equal lines
MarkerDocs ==
  { TaskLine(FALSE, <<"w">>, 0),
    JoinLines(<< <<"x">>, TaskLine(FALSE, <<"w">>, 0), <<"y">> >>),
    JoinLines(<< TaskLine(FALSE, <<"w">>, 0), TaskLine(FALSE, <<"w">>, 0) >>) }

\* the id createTodo returned for the scanned line
MarkerTodoId == 9

\* the contents a user's edit can leave of a file: a line typed above the
\* first line or under the last, the first line removed, or a word typed at
\* the end of one line
UserEdits(content) ==
  LET lines == Split(content)
  IN  { JoinLines(<< <<"u">> >> \o lines), JoinLines(lines \o << <<"u">> >>),
        JoinLines(Tail(lines)) }
        \cup {JoinLines([lines EXCEPT ![k] = @ \o <<"SP", "u">>]) :
                k \in 1..Len(lines)}

\* the entry of the log that the scan, the read or the end of the call left
MarkerLog(op) == SelectSeq(aentries, LAMBDA e : e.op = op)

\* scanDailyNotes has read the file and the line loop holds one of its
\* lines that carry no id
InitMarker ==
  /\ \E d \in MarkerDocs :
       /\ ahist = <<d>>
       /\ \E i \in 1..Len(parseTodosFromContent(d)) :
            LET ot == parseTodosFromContent(d)[i]
            IN  /\ ot.echoId = 0
                /\ aentries = <<[op |-> "scan", content |-> ot.line,
                                 lineIndex |-> ot.lineIndex]>>
  /\ EngineIdle

\* the user changes the file while the call is under way
UserEdit ==
  /\ Len(MarkerLog("edit")) < MaxCalls
  /\ MarkerLog("write") = <<>> /\ MarkerLog("skip") = <<>>
  /\ \E e \in UserEdits(ahist[Len(ahist)]) :
       ahist' = Append(ahist, e)
  /\ aentries' = Append(aentries, [op |-> "edit", content |-> <<>>,
                                    lineIndex |-> 0])
  /\ UNCHANGED engineVars

\* addMarkerToLine: await this.app.vault.read(file) completes
MarkerRead ==
  /\ MarkerLog("read") = <<>>
  /\ aentries' = Append(aentries, [op |-> "read",
                                    content |-> ahist[Len(ahist)],
                                    lineIndex |-> 0])
  /\ UNCHANGED <<ahist, engineVars>>

\* addMarkerToLine: the test of the line read and vault.modify with all
\* the lines read
MarkerWrite ==
  /\ MarkerLog("read") # <<>>
  /\ MarkerLog("write") = <<>> /\ MarkerLog("skip") = <<>>
  /\ LET ot == MarkerLog("scan")[1]
          content == MarkerLog("read")[1].content
          lines == Split(content)
      IN  IF ot.lineIndex < Len(lines) /\ lines[ot.lineIndex + 1] = ot.content
          THEN /\ ahist' = Append(ahist,
                     addMarkerToLine(content, ot.lineIndex, ot.content,
                                     MarkerTodoId))
               /\ aentries' = Append(aentries, [op |-> "write",
                                                content |-> <<>>,
                                                lineIndex |-> 0])
          ELSE /\ ahist' = ahist
               /\ aentries' = Append(aentries, [op |-> "skip",
                                                content |-> <<>>,
                                                lineIndex |-> 0])
  /\ UNCHANGED engineVars

NextMarker == UserEdit \/ MarkerRead \/ MarkerWrite

MarkerSpec == InitMarker /\ [][NextMarker]_vars

\* ------------------------------------------------ capture fragment harness
\* captures of id 4, brain or task, with or without audio, whose text, tag
\* and location are plain or hold a marker of capture 12 in one of the
\* three formats
FormatCaptures ==
  { [id |-> 4, type |-> ty, text |-> tx, tags |-> tg,
     location_address |-> la, has_audio |-> au] :
      ty \in {"brain", "task"},
      tx \in {<<"w">>, <<"w", "SP">> \o CompactMarker(Digits(12))},
      tg \in {<<>>, << <<"t">> >>, << <<"TAPE">> \o Digits(12) >>},
      la \in {<<>>, <<"l">>, LegacyMarker(Digits(12))},
      au \in BOOLEAN }

\* every combination of the three formatting toggles
FormatSettings ==
  [showTags : BOOLEAN, showLocation : BOOLEAN, showAudioLinks : BOOLEAN]

\* a capture of the page and the settings in force
InitFormat ==
  /\ \E c \in FormatCaptures, st \in FormatSettings :
       aentries = <<[capture |-> c, settings |-> st]>>
  /\ ahist = <<>>
  /\ EngineIdle

\* processDateGroup: formatCapture(capture, this.settings, this.api)
FormatCall ==
  /\ ahist = <<>>
  /\ ahist' = <<formatCapture(aentries[1].capture, aentries[1].settings)>>
  /\ UNCHANGED <<aentries, engineVars>>

\* appendToSection: the marker id taken from the fragment
ExtractCall ==
  /\ Len(ahist) = 1
  /\ ahist' = Append(ahist, MarkerIdOf(ahist[1]))
  /\ UNCHANGED <<aentries, engineVars>>

NextFormat == FormatCall \/ ExtractCall

FormatSpec == InitFormat /\ [][NextFormat]_vars

\* ------------------------------------------------------ auto-sync timer
\* the plugin object: ahist[1] holds the field autoSyncInterval (0 stands
\* for null), the interval timers of the window that are set, the id the
\* next setInterval returns, and the server URL and the token of the api;
\* aentries[1] is the last of startAutoSync and stopAutoSync that was called

\* EchoApi.isConfigured
isConfigured(p) == Len(p.serverUrl) > 0 /\ Len(p.token) > 0

\* stopAutoSync
stopAutoSync(p) ==
  IF p.autoSyncInterval # 0
  THEN [p EXCEPT !.timers = @ \ {p.autoSyncInterval}, !.autoSyncInterval = 0]
  ELSE p

\* a startAutoSync that does not stop the timer it replaces
startAutoSync_NoStop(p) ==
  [p EXCEPT !.autoSyncInterval = p.nextId,
            !.timers = @ \cup {p.nextId},
            !.nextId = @ + 1]

\* startAutoSync
startAutoSync(p) ==
  LET q == stopAutoSync(p)
  IN  [q EXCEPT !.autoSyncInterval = q.nextId,
                !.timers = @ \cup {q.nextId},
                !.nextId = @ + 1]

\* the plugin constructed and not yet loaded, with the settings of an
\* earlier session, and an engine that has nothing to fetch
InitTimer ==
  /\ \E u \in {<<>>, <<"u">>}, k \in {<<>>, <<"k">>} :
       ahist = <<[loaded |-> FALSE, autoSyncInterval |-> 0, timers |-> {},
                  nextId |-> 1, serverUrl |-> u, token |-> k]>>
  /\ aentries = <<"none">>
  /\ running = FALSE
  /\ lastSyncTimestamp = LatestOf(CaptureIds, 0)
  /\ synced = CaptureIds
  /\ fetched = CaptureIds
  /\ daily = <<>>
  /\ folders = {}
  /\ recent = <<>>
  /\ meetings = <<>>
  /\ loc = [c \in Callers |-> IdleLocals]
  /\ ended = NoRun
  /\ lastCall = "none"
  /\ runs = 0
  /\ faults = {}
  /\ pageSize = PageLimit
  /\ appendCalls = [id \in CaptureIds |-> 0]
  /\ syncTodos = FALSE
  /\ todos = <<>>

\* onload: the timer is started if the api is configured
Onload ==
  /\ ~ahist[1].loaded
  /\ ahist[1].nextId <= MaxCalls
  /\ LET p == [ahist[1] EXCEPT !.loaded = TRUE]
     IN  IF isConfigured(p)
         THEN ahist' = <<startAutoSync(p)>> /\ aentries' = <<"start">>
         ELSE ahist' = <<p>> /\ aentries' = aentries
  /\ UNCHANGED engineVars

\* onunload
Onunload ==
  /\ ahist[1].loaded
  /\ ahist' = <<[stopAutoSync(ahist[1]) EXCEPT !.loaded = FALSE]>>
  /\ aentries' = <<"stop">>
  /\ UNCHANGED engineVars

\* the slider of the sync interval is moved: restartAutoSync
RestartAutoSync ==
  /\ ahist[1].loaded
  /\ ahist[1].nextId <= MaxCalls
  /\ ahist' = <<startAutoSync(ahist[1])>>
  /\ aentries' = <<"start">>
  /\ UNCHANGED engineVars

\* the settings tab: the server URL is typed, login sets the token and
\* logout clears it
Configure ==
  /\ ahist[1].loaded
  /\ \E u \in {<<>>, <<"u">>}, k \in {<<>>, <<"k">>} :
       /\ u = ahist[1].serverUrl \/ k = ahist[1].token
       /\ ahist' = <<[ahist[1] EXCEPT !.serverUrl = u, !.token = k]>>
  /\ UNCHANGED <<aentries, engineVars>>

\* an interval timer that is set fires
Tick ==
  /\ \E t \in ahist[1].timers :
       IF isConfigured(ahist[1]) THEN RunSync(FALSE) ELSE UNCHANGED vars

\* the command 'Sync Now'
SyncNow ==
  /\ ahist[1].loaded
  /\ IF ~isConfigured(ahist[1]) THEN UNCHANGED vars ELSE RunSync(TRUE)

NextTimer ==
  \/ Onload
  \/ Onunload
  \/ RestartAutoSync
  \/ Configure
  \/ Tick
  \/ SyncNow
  \/ \E c \in Callers : Fetch(c)

TimerSpec == InitTimer /\ [][NextTimer]_vars

\* ---------------------------------------------------------- engine claims
\* C1: no step leaves more than one sync body executing, and a call made
\* while a body executes is rejected or skipped: it starts no body and changes
\* neither the running flag, the checkpoint, the documents nor anything on
\* the Remote Service.
C1_SingleFlight ==
  [][/\ Cardinality({c \in Callers : loc'[c].pc # "idle"}) <= 1
     /\ (running /\ lastCall' # lastCall) =>
          /\ lastCall' \in {"rejected", "skipped"}
          /\ UNCHANGED <<running, lastSyncTimestamp, synced, daily, meetings,
                         folders, loc, ended, runs, fetched, todos, recent>>]_vars

\* C1 witness: a call was rejected while a body waits for an
\* acknowledgment.
C1_Witness ==
  /\ running
  /\ lastCall = "rejected"
  /\ \E c \in Callers : loc[c].pc = "ack"

\* C2: the running flag is set exactly while a sync body executes: a body
\* that has ended, by return or by throw, has left it cleared.
C2_GuaranteedRelease == running <=> Busy # {}

\* C2 witness: the first sync() threw and a second one has been accepted.
C2_Witness ==
  /\ runs = 2
  /\ running
  /\ ended.outcome = "threw"
  /\ lastCall = "accepted"

\* C3: every daily note holds at most one marker for any capture id: the
\* notes of the initial vault do, and so does every note that a step has
\* created or written.
C3_CaptureDedup ==
  /\ \A d \in DOMAIN daily : \A id \in CaptureIds :
       MarkerCount(daily[d], id) <= 1
  /\ [][\A d \in DOMAIN daily' :
          (d \notin DOMAIN daily \/ daily'[d] # daily[d]) =>
            \A id \in CaptureIds : MarkerCount(daily'[d], id) <= 1]_vars

\* C3 witness: the fragment of capture 4 was appended twice to the note of
\* its day, which holds one marker for it.
C3_Witness ==
  /\ appendCalls[4] = 2
  /\ 1 \in DOMAIN daily
  /\ MarkerCount(daily[1], 4) = 1

\* C6: no step lowers the checkpoint.
C6_CheckpointMonotone == [][lastSyncTimestamp' >= lastSyncTimestamp]_vars

\* C6 witness: a body has just acknowledged a capture older than the
\* checkpoint, which stays where it was.
C6_Witness ==
  \E c \in Busy :
    /\ loc[c].captures # <<>>
    /\ loc[c].captures[Len(loc[c].captures)] \in loc[c].acked
    /\ CaptureOf(loc[c].captures[Len(loc[c].captures)]).created_at
         < lastSyncTimestamp

\* C7: when a sync run has ended, the checkpoint is the latest of its value
\* at the start of the run and the creation timestamps of the captures the
\* run acknowledged.
C7_CheckpointAtEnd ==
  (Busy = {} /\ ended.outcome # "none") =>
    lastSyncTimestamp = LatestOf(ended.acked, ended.start)

\* C7 witness: a run has returned after it raised the checkpoint, and a
\* capture whose acknowledgment failed is later than the checkpoint.
C7_Witness ==
  /\ Busy = {}
  /\ ended.outcome = "returned"
  /\ ended.acked # {}
  /\ lastSyncTimestamp > ended.start
  /\ \E id \in fetched \ synced : CaptureOf(id).created_at > lastSyncTimestamp

\* C8 (as claimed): every fetched capture whose creation timestamp is not
\* later than the checkpoint has been acknowledged.
C8_NoAdvancePastUnacked ==
  \A id \in fetched :
    CaptureOf(id).created_at <= lastSyncTimestamp => id \in synced

\* C9 (as claimed): once a sync run has returned without any failure, no
\* fetched capture is left unacknowledged: the run has fetched again and
\* acknowledged what earlier runs failed to acknowledge.
C9_RetryByRerun ==
  (Busy = {} /\ ended.outcome = "returned" /\ ended.clean) =>
    fetched \subseteq synced

\* C10 (as claimed): a sync body that executes eventually ends.
C10_Termination == running ~> ~running

\* ---------------------------------------------------------- editor claims
\* call k of the harness repeats the fragment of call k - 1
RepeatedCall(k) == k >= 2 /\ k <= Len(aentries) /\ aentries[k] = aentries[k - 1]

\* C4 (as claimed): after appendToSection is called twice with the same
\* fragment on the same document, the document holds exactly one marker for
\* the fragment's id, and the second call leaves the content as the first
\* call left it.
C4_IdempotentAppend ==
  \A k \in 1..Len(aentries) :
    RepeatedCall(k) =>
      /\ ahist[k + 1] = ahist[k]
      /\ MarkerCount(ahist[k + 1], aentries[k].id) = 1

\* C5: appendToSection of a fragment that carries a marker for N, in any of
\* the three formats, on a document that already holds a marker for N, in
\* any of the three formats, leaves the document as it was.
C5_MarkerCompat ==
  \A k \in 1..Len(aentries) :
    (CarriesOnly(aentries[k].entry, aentries[k].id)
       /\ MarkerCount(ahist[k], aentries[k].id) >= 1)
      => ahist[k + 1] = ahist[k]

\* C5 witness: a fragment for 4 with the legacy marker, then one with the
\* compact marker, were appended to a document whose only marker for 4 is
\* the compact one without the blank, and the document is as it was.
C5_Witness ==
  /\ Len(aentries) = 2
  /\ aentries[1].id = 4 /\ aentries[2].id = 4
  /\ Includes(aentries[1].entry, LegacyMarker(Digits(4)))
  /\ Includes(ahist[1], TightMarker(Digits(4)))
  /\ ~Includes(ahist[1], LegacyMarker(Digits(4)))
  /\ Includes(aentries[2].entry, CompactMarker(Digits(4)))
  /\ ahist[3] = ahist[1]

\* C17: todoSync.sync() is entered only by the step that leaves the
\* pagination loop, an empty page or the last acknowledgment of a page with
\* no more to come, and only with syncTodos set; that step enters it
\* whenever syncTodos is set, whatever errors the capture stage has counted,
\* and no step of the capture stage follows it.  With syncTodos off the
\* todos of the Remote Service never change and a daily note changes only
\* in the processing of a date group.
C17_StageOrdering ==
  [][\A c \in Callers :
       LET L == loc[c]
           TodoPcs == {"todo", "t_scan", "t_line", "t_refetch", "t_write"}
           loopEnds ==
             \/ /\ L.pc = "fetch" /\ <<"fetch", 0>> \notin faults
                /\ Unsynced(L.since) = {}
             \/ L.pc = "ack" /\ L.ai = Len(L.captures) /\ ~L.hasMore
       IN  /\ loc'[c].pc \in TodoPcs =>
                syncTodos /\ (L.pc \in TodoPcs \/ loopEnds)
           /\ L.pc \in TodoPcs => loc'[c].pc \in TodoPcs \cup {"idle"}
           /\ (loopEnds /\ loc'[c] # L /\ syncTodos) =>
                /\ loc'[c].pc = "todo"
                /\ loc'[c].totalErrors >= L.totalErrors
           /\ ~syncTodos =>
                /\ todos' = todos
                /\ daily' # daily => \E b \in Callers : loc[b].pc = "group"]_vars

\* C17 witness: the reconciler has been entered by a sync() whose capture
\* stage counted an error.
C17_Witness ==
  /\ syncTodos
  /\ \E c \in Callers : loc[c].pc = "t_scan" /\ loc[c].totalErrors > 0

\* C18: every sync() body ends by a return, never by a throw to its
\* caller; when the call that ends it failed, the page fetch of the capture
\* stage or a fetch or the section write of the todo stage, the result
\* carries the captures counted so far and exactly one error more.
C18_StageErrorsContained ==
  [][\A c \in Callers :
       (loc[c].pc # "idle" /\ loc'[c].pc = "idle") =>
         LET L == loc[c]
             stageThrew ==
               \/ L.pc = "fetch" /\ <<"fetch", 0>> \in faults
               \/ L.pc = "todo" /\ <<"todos", 0>> \in faults
               \/ L.pc = "t_refetch" /\ <<"todos", 1>> \in faults
               \/ L.pc = "t_write" /\ <<"write", 0>> \in faults
         IN  /\ ended'.outcome = "returned"
             /\ stageThrew => /\ ended'.errors = Bump(L.totalErrors, 1)
                              /\ ended'.synced = L.totalSynced]_vars

\* C19: when the processing of a date group throws, the error count rises
\* by the number of captures of the group and sync() goes on with the next
\* date group of the page, or with the acknowledgments after the last one;
\* a step that does not throw counts no error.  When the groups of a page
\* are done, every capture of a group that has not thrown stands in the
\* daily note of its date.
C19_DateGroupIsolation ==
  [][\A c \in Callers :
       (loc[c].pc = "group" /\ loc'[c] # loc[c]) =>
         LET L == loc[c]
             g == L.byDate[L.gi]
             capture == CaptureOf(g.captures[L.ci])
             throws ==
               IF L.ci = 0
               THEN g.dateStr \notin DOMAIN daily
                      /\ <<"open", g.dateStr>> \in faults
               ELSE \/ /\ capture.type = "meeting"
                       /\ \/ CreateMeetingThrows(capture)
                          \/ <<"meet", capture.id>> \in faults
                    \/ <<"append", capture.id>> \in faults
             M == loc'[c]
         IN  /\ throws =>
                  /\ M.totalErrors = Bump(L.totalErrors, Len(g.captures))
                  /\ IF L.gi < Len(L.byDate)
                     THEN M.pc = "group" /\ M.gi = L.gi + 1 /\ M.ci = 0
                     ELSE M.pc = "ack"
             /\ ~throws => M.totalErrors = L.totalErrors
             /\ M.byDate = L.byDate
             /\ M.pc = "ack" =>
                  \A i \in 1..Len(L.byDate) :
                    i \notin M.thrown =>
                      \A k \in 1..Len(L.byDate[i].captures) :
                        /\ L.byDate[i].dateStr \in DOMAIN daily'
                        /\ MarkerCount(daily'[L.byDate[i].dateStr],
                                       L.byDate[i].captures[k]) >= 1]_vars

\* C19 witness: the first date group of a page, one of two captures, has
\* thrown and counted two errors; the second group has been processed and
\* its capture stands in the note of its date.
C19_Witness ==
  \E c \in Callers :
    /\ loc[c].pc = "ack"
    /\ Len(loc[c].byDate) = 2
    /\ loc[c].thrown = {1}
    /\ Len(loc[c].byDate[1].captures) = 2
    /\ loc[c].totalErrors = 2
    /\ loc[c].byDate[2].dateStr \in DOMAIN daily
    /\ MarkerCount(daily[loc[c].byDate[2].dateStr],
                   loc[c].byDate[2].captures[1]) = 1

\* C20: when the date groups of a page are done, thrown or not, sync()
\* goes on to markSynced of the first capture of the page; each step of the
\* acknowledgments attempts the capture in hand and goes on to the next one
\* in page order, or leaves the page after the last.  An attempt that fails
\* counts one error, no synced capture and marks nothing; one that succeeds
\* counts one synced capture and no error.
C20_AckIndependence ==
  [][\A c \in Callers :
       LET L == loc[c]
           M == loc'[c]
           capture == CaptureOf(L.captures[L.ai])
           \* the counts after the step, in the result when sync() returns
           errors == IF M.pc = "idle" THEN ended'.errors ELSE M.totalErrors
           count == IF M.pc = "idle" THEN ended'.synced ELSE M.totalSynced
       IN  /\ (L.pc = "group" /\ M.pc # "group") =>
                M.pc = "ack" /\ M.ai = 1 /\ M.captures = L.captures
           /\ (L.pc = "ack" /\ M # L) =>
                /\ IF L.ai < Len(L.captures)
                   THEN M.pc = "ack" /\ M.ai = L.ai + 1
                          /\ M.captures = L.captures
                   ELSE M.pc # "ack"
                /\ IF <<"ack", capture.id>> \in faults
                   THEN /\ synced' = synced
                        /\ errors = Bump(L.totalErrors, 1)
                        /\ count = L.totalSynced
                   ELSE /\ synced' = synced \cup {capture.id}
                        /\ count = Bump(L.totalSynced, 1)
                        /\ errors = L.totalErrors]_vars

\* C20 witness: a date group of the page has thrown, markSynced has failed
\* for the first capture of the page and succeeded for the second, and the
\* third is in hand.
C20_Witness ==
  \E c \in Callers :
    /\ loc[c].pc = "ack"
    /\ loc[c].ai = 3
    /\ loc[c].thrown # {}
    /\ loc[c].captures[1] \notin synced
    /\ <<"ack", loc[c].captures[1]>> \in faults
    /\ loc[c].captures[2] \in synced
    /\ loc[c].totalSynced = 1

\* ------------------------------------------------------- reconciler claims
\* C11: when the reconciler handles a task line whose id is in the working
\* set, and the line's completion state differs from the remote todo's, it
\* sends updateTodo with the local state, whether the line is checked and
\* the todo open or the line unchecked and the todo completed: the remote
\* flag then equals the line's and one update is counted (one error if the
\* call fails); when the states agree nothing is sent.
C11_LocalWins ==
  [][\A c \in Callers :
       (loc[c].pc = "t_line" /\ loc'[c] # loc[c]) =>
         LET L == loc[c]
             ot == L.noteTodos[L.fi].todos[L.li]
             id == ot.echoId
         IN  (id # 0 /\ id \in DOMAIN L.echoById) =>
               IF todos[id].completed # ot.completed
               THEN IF <<"push", 0>> \in faults
                    THEN /\ todos' = todos
                         /\ loc'[c].errors = L.errors + 1
                         /\ loc'[c].updated = L.updated
                    ELSE /\ todos' = [todos EXCEPT ![id].completed = ot.completed]
                         /\ loc'[c].updated = L.updated + 1
               ELSE /\ todos' = todos
                    /\ loc'[c].updated = L.updated]_vars

\* C11 witness: one pass has sent two updates, one that completed todo 5
\* for a checked line and one that reopened todo 3 for an unchecked line.
C11_Witness ==
  /\ \E c \in Callers : loc[c].updated = 2
  /\ 3 \in DOMAIN todos
  /\ todos[5].completed
  /\ ~todos[3].completed

\* C12: a task line with the emblem and no id marker is handled in one
\* step of the pass, and each scanned line is handled once, in order.  That
\* step sends one createTodo: if it fails one error is counted and nothing
\* is created; else exactly one remote todo is added, its text the line
\* without checkbox, emblem and marker, and unless the rewrite fails the
\* line at the recorded index becomes the original line followed by the
\* marker with the new id, every other line and file staying as it was.
\* When the pass has handled its last line without an error, every line
\* that was scanned unlinked stands in its file as the original line with
\* the marker of a remote todo that has its text.
C12_CreateAndLink ==
  [][\A c \in Callers :
       (loc[c].pc = "t_line" /\ loc'[c] # loc[c]) =>
         LET L == loc[c]
             file == L.noteTodos[L.fi]
             ot == file.todos[L.li]
             path == file.filePath
             added == DOMAIN todos' \ DOMAIN todos
             n == CHOOSE i \in added : TRUE
             marker == <<"SP">> \o TapeMark \o <<"t", "SP">>
             before == Split(daily[path])
             after == Split(daily'[path])
             unlinked(f) == {i \in 1..Len(f.todos) : f.todos[i].echoId = 0}
         IN  /\ loc'[c].noteTodos = L.noteTodos
             /\ IF L.li < Len(file.todos)
                THEN loc'[c].pc = "t_line" /\ loc'[c].fi = L.fi
                       /\ loc'[c].li = L.li + 1
                ELSE IF L.fi < Len(L.noteTodos)
                THEN loc'[c].pc = "t_line" /\ loc'[c].fi = L.fi + 1
                       /\ loc'[c].li = 1
                ELSE loc'[c].pc = "t_refetch"
             /\ ot.echoId = 0 =>
                  IF <<"push", 0>> \in faults
                  THEN /\ todos' = todos /\ daily' = daily
                       /\ loc'[c].errors = L.errors + 1
                       /\ loc'[c].created = L.created
                  ELSE /\ Cardinality(added) = 1
                       /\ \A i \in DOMAIN todos : todos'[i] = todos[i]
                       /\ ot.line = <<ot.line[1], "MIC", "SP">> \o todos'[n].text
                       /\ IF <<"rewrite", 0>> \in faults
                          THEN /\ daily' = daily
                               /\ loc'[c].errors = L.errors + 1
                               /\ loc'[c].created = L.created
                          ELSE /\ loc'[c].created = L.created + 1
                               /\ loc'[c].errors = L.errors
                               /\ DOMAIN daily' = DOMAIN daily
                               /\ \A d \in DOMAIN daily \ {path} :
                                    daily'[d] = daily[d]
                               /\ after = [before EXCEPT ![ot.lineIndex + 1] =
                                             ot.line \o marker \o Digits(n)]
             /\ (loc'[c].pc = "t_refetch" /\ loc'[c].errors = 0) =>
                  \A fi \in 1..Len(L.noteTodos) :
                    LET now == Split(daily'[L.noteTodos[fi].filePath])
                    IN  \A i \in unlinked(L.noteTodos[fi]) :
                          LET o == L.noteTodos[fi].todos[i]
                          IN  \E id \in DOMAIN todos' :
                                /\ now[o.lineIndex + 1]
                                     = o.line \o marker \o Digits(id)
                                /\ todos'[id].text = o.text]_vars

\* C12 witness: a pass over a note with two unlinked task lines has
\* created two todos and has rewritten both lines, the first with the id 6
\* and the second with the id 7.
C12_Witness ==
  /\ \E c \in Callers : loc[c].pc = "t_refetch" /\ loc[c].created = 2
  /\ 1 \in DOMAIN daily
  /\ Includes(daily[1], <<"NL">> \o TaskLine(FALSE, <<"a">>, 6) \o <<"NL">>)
  /\ Includes(daily[1], <<"NL">> \o TaskLine(FALSE, <<"b">>, 7) \o <<"NL">>)

\* C13: over the sync runs, with no edit by the user, no task line written
\* by the user leads to more than one remote todo: the lines "a" and "b" of
\* the note each have at most one remote todo with their text, also after a
\* run in which a call failed.
C13_NoDuplicateTodos ==
  \A text \in {<<"a">>, <<"b">>} :
    Cardinality({id \in DOMAIN todos : todos[id].text = text}) <= 1

\* C14: when a reconciliation pass completes, by its write of today's todo
\* section or with nothing to write, the todo section of today's note holds
\* one unchecked task line per remote todo that is neither archived nor
\* completed, each with its text and id marker, ascending in position, and
\* nothing else, whatever the remote todo set is.
C14_TodoSnapshot ==
  [][\A c \in Callers :
       (/\ loc'[c].pc = "idle"
        /\ \/ loc[c].pc = "t_write" /\ <<"write", 0>> \notin faults
           \/ /\ loc[c].pc = "t_refetch" /\ <<"todos", 1>> \notin faults
              /\ today \in DOMAIN daily) =>
         LET active == {id \in DOMAIN todos :
                          ~todos[id].archived /\ ~todos[id].completed}
             lines == TodoSectionLines(daily'[today])
             idOf(i) == ParseTodoLine(lines[i], 0).echoId
         IN  /\ Len(lines) = Cardinality(active)
             /\ \A i \in 1..Len(lines) :
                  /\ idOf(i) \in active
                  /\ lines[i] = TaskLine(FALSE, todos[idOf(i)].text, idOf(i))
             /\ \A i, j \in 1..Len(lines) :
                  i < j => /\ idOf(i) # idOf(j)
                           /\ todos[idOf(i)].position <= todos[idOf(j)].position]_vars

C16_SectionIsolation ==
  \A k \in 1..Len(aentries) :
    aentries[k].op = "append" =>
      LET old == Sections(ahist[k])
          new == Sections(ahist[k + 1])
          at == IndexOf(ahist[k], aentries[k].header)
          own == 1 + Cardinality({j \in HeaderStarts(ahist[k]) : j <= at})
      IN  \/ ahist[k + 1] = ahist[k]
          \/ IF at = 0
             THEN Len(new) = Len(old) + 1 /\ SubSeq(new, 1, Len(old)) = old
             ELSE /\ Len(new) = Len(old)
                  /\ \A i \in 1..Len(old) : i # own => new[i] = old[i]

\* ------------------------------------------------------- note store claims
\* C21: getOrCreateDailyNote for a date whose note exists changes neither
\* the content of any note nor the folders; a note that did not exist is
\* created with the skeleton of its date, and no other note appears or
\* disappears.  In writeTodosToDaily the note of today that existed is only
\* handed to replaceTodoSection with the content it had.
C21_NeverRetemplates ==
  [][\A c \in Callers :
       /\ (loc[c].pc = "group" /\ loc[c].ci = 0 /\ loc'[c] # loc[c]) =>
            LET d == loc[c].byDate[loc[c].gi].dateStr
            IN  /\ d \in DOMAIN daily => daily' = daily /\ folders' = folders
                /\ d \notin DOMAIN daily =>
                     /\ DOMAIN daily' \subseteq DOMAIN daily \cup {d}
                     /\ \A x \in DOMAIN daily : daily'[x] = daily[x]
                     /\ d \in DOMAIN daily' =>
                          daily'[d] = createDailyNoteContent(d)
       /\ (loc[c].pc = "t_write" /\ loc'[c] # loc[c]
              /\ today \in DOMAIN daily) =>
            /\ folders' = folders
            /\ \A x \in DOMAIN daily \ {today} :
                 x \in DOMAIN daily' /\ daily'[x] = daily[x]
            /\ \/ daily' = daily
               \/ daily'[today] =
                    replaceTodoSection(
                      daily[today],
                      JoinLines([i \in 1..Len(loc[c].active) |->
                                   RenderTodo(loc[c].active[i])]))
    ]_vars

\* C21 witness: the note of day 1 existed before the run, its date group has
\* been opened, and the note has the content it had
C21_Witness ==
  \E c \in Callers :
    /\ loc[c].pc = "group" /\ loc[c].ci = 1
    /\ loc[c].byDate[loc[c].gi].dateStr = 1
    /\ 1 \in DOMAIN daily /\ daily[1] = OldDailyNote

\* C22: when the file at the path derived for a meeting capture holds the
\* capture's marker, createMeetingNote creates and writes nothing: the
\* meeting notes and the folders are as they were, and unless a call of the
\* vault fails the date group does not throw.
C22_MeetingNoteIdempotent ==
  [][\A c \in Callers :
       (loc[c].pc = "group" /\ loc[c].ci >= 1 /\ loc'[c] # loc[c]) =>
         LET L == loc[c]
             capture == CaptureOf(L.byDate[L.gi].captures[L.ci])
             f == formatMeetingFilename(capture)
         IN  (/\ capture.type = "meeting"
              /\ f \in DOMAIN meetings
              /\ Includes(meetings[f], LegacyMarker(Digits(capture.id)))) =>
               /\ meetings' = meetings
               /\ folders' = folders
               /\ (faults \cap {<<"meet", capture.id>>,
                                 <<"append", capture.id>>} = {}) =>
                    L.gi \notin loc'[c].thrown]_vars

\* C22 witness: createMeetingNote returned twice for capture 7, and the
\* note at its path is the one the first call created
C22_Witness ==
  /\ appendCalls[7] = 2
  /\ formatMeetingFilename(CaptureOf(7)) \in DOMAIN meetings
  /\ meetings[formatMeetingFilename(CaptureOf(7))] =
       buildMeetingContent(CaptureOf(7), DEFAULT_SETTINGS)

\* C23 (as claimed): every capture marked synced on the Remote Service has
\* its fragment, or for a meeting its link line, in the daily note of its
\* date.
C23_AckedImpliesInserted ==
  \A id \in synced :
    /\ formatDate(CaptureOf(id).created_at) \in DOMAIN daily
    /\ MarkerCount(daily[formatDate(CaptureOf(id).created_at)], id) >= 1

\* C24 (as claimed): appendToSection of a fragment that carries a marker
\* for N leaves the document as it was if and only if the document holds a
\* marker for exactly N; a document whose markers are all for other ids gets
\* the fragment inserted.
C24_ExactDedup ==
  \A k \in 1..Len(aentries) :
    CarriesOnly(aentries[k].entry, aentries[k].id) =>
      ((ahist[k + 1] = ahist[k]) <=> MarkerCount(ahist[k], aentries[k].id) >= 1)

\* C25 (as claimed): after a sync run whose reconciliation returned without
\* any failure, no step of a later run changes a todo of the Remote
\* Service: a todo that is completed stays completed, and nothing is
\* created or updated.
C25_CompletionStable ==
  [][(ended.outcome = "returned" /\ ended.clean) =>
       /\ \A id \in DOMAIN todos :
            todos[id].completed => id \in DOMAIN todos' /\ todos'[id].completed
       /\ todos' = todos]_vars

\* C26 (as claimed): when the reconciliation of a run ends, every task
\* line whose createTodo or updateTodo failed in the run stands unchanged
\* in its document, whichever document and section it is in.
C26_FailedPushKeepsLine ==
  [][\A c \in Callers :
       (loc[c].pc \in {"t_refetch", "t_write"} /\ loc'[c].pc = "idle") =>
         \A x \in loc[c].unpushed :
           /\ x[1] \in DOMAIN daily'
           /\ \E i \in 1..Len(Split(daily'[x[1]])) :
                Split(daily'[x[1]])[i] = x[2]]_vars

\* C27 (as claimed): when no file at the path derived for a meeting capture
\* holds the capture's marker, createMeetingNote leaves a note with the
\* marker at that path and does not throw, unless a call of the vault
\* fails, whether or not a file exists at the path.
C27_MeetingNoteCreated ==
  [][\A c \in Callers :
       (loc[c].pc = "group" /\ loc[c].ci >= 1 /\ loc'[c] # loc[c]) =>
         LET L == loc[c]
             capture == CaptureOf(L.byDate[L.gi].captures[L.ci])
             f == formatMeetingFilename(capture)
             marker == LegacyMarker(Digits(capture.id))
         IN  (/\ capture.type = "meeting"
              /\ <<"meet", capture.id>> \notin faults
              /\ ~(f \in DOMAIN meetings /\ Includes(meetings[f], marker))) =>
               /\ f \in DOMAIN meetings'
               /\ Includes(meetings'[f], marker)
               /\ <<"append", capture.id>> \notin faults =>
                    L.gi \notin loc'[c].thrown]_vars

\* C28: the turn of processDateGroup for a meeting capture changes the
\* daily note, if at all, by appending the link line of the capture, and
\* then the meeting note with the capture's marker exists; when
\* createMeetingNote throws the daily note is left as it was.  After every
\* step that writes a note, a daily note holds the link line of a meeting capture only if the
\* meeting note of the capture exists, and never its formatted body.
C28_MeetingRouting ==
  [][/\ \A c \in Callers :
          (loc[c].pc = "group" /\ loc[c].ci >= 1 /\ loc'[c] # loc[c]) =>
            LET L == loc[c]
                d == L.byDate[L.gi].dateStr
                capture == CaptureOf(L.byDate[L.gi].captures[L.ci])
                found == /\ formatMeetingFilename(capture) \in DOMAIN meetings
                         /\ Includes(meetings[formatMeetingFilename(capture)],
                                     LegacyMarker(Digits(capture.id)))
                throws == \/ <<"meet", capture.id>> \in faults
                          \/ /\ ~found
                             /\ formatMeetingFilename(capture) \in DOMAIN meetings
            IN  capture.type = "meeting" =>
                  /\ throws => daily' = daily /\ meetings' = meetings
                  /\ daily' # daily =>
                       /\ daily'[d] = appendToSection(daily[d],
                                                      getMeetingDailyLink(capture),
                                                      sectionHeader)
                       /\ \A x \in DOMAIN daily \ {d} : daily'[x] = daily[x]
     /\ (daily' # daily \/ meetings' # meetings) =>
        \A m \in {x \in Captures : x.type = "meeting"} :
          \A d \in DOMAIN daily' :
            /\ ~Includes(daily'[d], formatCapture(m, DEFAULT_SETTINGS))
            /\ Includes(daily'[d], getMeetingDailyLink(m)) =>
                 /\ d = formatDate(m.created_at)
                 /\ formatMeetingFilename(m) \in DOMAIN meetings'
                 /\ Includes(meetings'[formatMeetingFilename(m)],
                             LegacyMarker(Digits(m.id)))]_vars

\* C28 witness: the meeting note of capture 7 exists and the daily note of
\* its date holds its link line, once
C28_Witness ==
  /\ formatMeetingFilename(CaptureOf(7)) \in DOMAIN meetings
  /\ formatDate(CaptureOf(7).created_at) \in DOMAIN daily
  /\ Includes(daily[formatDate(CaptureOf(7).created_at)],
              getMeetingDailyLink(CaptureOf(7)))
  /\ MarkerCount(daily[formatDate(CaptureOf(7).created_at)], 7) = 1

\* C29: the groups of a fetched page hold each capture of the page under
\* its own date, in order of first appearance, the captures of a group in
\* page order, and the groups and their captures are processed in that
\* order.  The turn for a capture changes no daily note but the one of the
\* capture's date; a fragment it inserts stands after every capture marker
\* of that note, the markers staying where they were.  No daily note that
\* the plugin wrote holds the marker of a capture of another date.
C29_RoutingByDate ==
  [][/\ \A c \in Callers :
          LET L == loc[c]
              M == loc'[c]
              Idx(id) == CHOOSE i \in 1..Len(M.captures) : M.captures[i] = id
          IN  /\ (L.pc = "fetch" /\ M.pc = "group") =>
                   /\ M.gi = 1 /\ M.ci = 0
                   /\ \A i \in 1..Len(M.captures) :
                        \E g \in 1..Len(M.byDate) :
                          /\ M.byDate[g].dateStr =
                               formatDate(CaptureOf(M.captures[i]).created_at)
                          /\ \E k \in 1..Len(M.byDate[g].captures) :
                               M.byDate[g].captures[k] = M.captures[i]
                   /\ \A g \in 1..Len(M.byDate) :
                        /\ \A k \in 1..Len(M.byDate[g].captures) :
                             formatDate(CaptureOf(M.byDate[g].captures[k]).created_at)
                               = M.byDate[g].dateStr
                        /\ \A k, l \in 1..Len(M.byDate[g].captures) :
                             k < l => Idx(M.byDate[g].captures[k])
                                        < Idx(M.byDate[g].captures[l])
                        /\ \A h \in 1..Len(M.byDate) :
                             g < h => /\ M.byDate[g].dateStr # M.byDate[h].dateStr
                                      /\ Idx(M.byDate[g].captures[1])
                                           < Idx(M.byDate[h].captures[1])
              /\ (L.pc = "group" /\ M.pc = "group" /\ M # L) =>
                   \/ M.gi = L.gi /\ M.ci = L.ci + 1
                   \/ M.gi = L.gi + 1 /\ M.ci = 0
              /\ (L.pc = "group" /\ L.ci >= 1 /\ M # L) =>
                   LET d == formatDate(
                              CaptureOf(L.byDate[L.gi].captures[L.ci]).created_at)
                       id == L.byDate[L.gi].captures[L.ci]
                   IN  /\ DOMAIN daily' = DOMAIN daily
                       /\ \A x \in DOMAIN daily \ {d} : daily'[x] = daily[x]
                       /\ daily' # daily =>
                            /\ MarkerCount(daily'[d], id) = 1
                            /\ \A o \in CaptureIds \ {id} :
                                 /\ MarkerPositions(daily'[d], o)
                                      = MarkerPositions(daily[d], o)
                                 /\ \A i \in MarkerPositions(daily'[d], o) :
                                      \A j \in MarkerPositions(daily'[d], id) :
                                        i < j
     /\ daily' # daily =>
          \A d \in DOMAIN daily' :
            \A id \in CaptureIds :
              MarkerCount(daily'[d], id) >= 1 =>
                d = formatDate(CaptureOf(id).created_at)]_vars

\* C29 witness: the first page of a run held capture 4 before capture 42,
\* both of day 1, and the note of day 1 holds the fragment of 4 before the
\* fragment of 42
C29_Witness ==
  \E c \in Callers :
    /\ loc[c].pc = "ack" /\ loc[c].pages = 1 /\ runs = 1
    /\ \E i, j \in 1..Len(loc[c].captures) :
         i < j /\ loc[c].captures[i] = 4 /\ loc[c].captures[j] = 42
    /\ 1 \in DOMAIN daily
    /\ MarkerCount(daily[1], 4) = 1 /\ MarkerCount(daily[1], 42) = 1
    /\ \A i \in MarkerPositions(daily[1], 4) :
         \A j \in MarkerPositions(daily[1], 42) : i < j

\* C30 (as claimed): when the line loop of a reconciliation ends without an
\* error, a todo that is not archived and whose id stands in several
\* scanned task lines of different completion states has the state of the
\* last of these lines in scan order.
C30_LastWriteWins ==
  [][\A c \in Callers :
       (loc[c].pc = "t_line" /\ loc'[c].pc = "t_refetch"
          /\ loc'[c].errors = 0) =>
         LET nt == loc[c].noteTodos
         IN  \A id \in {x \in DOMAIN todos : ~todos[x].archived} :
               LET I(f) == {i \in 1..Len(nt[f].todos) :
                              nt[f].todos[i].echoId = id}
                   F == {f \in 1..Len(nt) : I(f) # {}}
               IN  (\E f, g \in F : \E i \in I(f), j \in I(g) :
                      nt[f].todos[i].completed # nt[g].todos[j].completed) =>
                     todos'[id].completed =
                       nt[Max(F)].todos[Max(I(Max(F)))].completed]_vars

\* C30 (amended): only the first scanned task line with a given id is
\* compared with the remote todo.  A line whose id stands in a line of a
\* file scanned before, or in an earlier line of its file whose call did
\* not fail, sends nothing and counts nothing; a line with no such line
\* before it, whose id is in the working set fetched at the start of the
\* pass, sets the remote todo to its own state unless the call fails.  When
\* the line loop ends without an error and without a todo created in the
\* pass, a todo that is not archived and whose id stands in scanned lines
\* has the state of the first of them in scan order.
C30_FirstLineWins ==
  [][\A c \in Callers :
       (loc[c].pc = "t_line" /\ loc'[c] # loc[c]) =>
         LET L == loc[c]
             M == loc'[c]
             nt == L.noteTodos
             file == nt[L.fi]
             ot == file.todos[L.li]
             seenBefore ==
               \/ \E f \in 1..(L.fi - 1) : \E i \in 1..Len(nt[f].todos) :
                    nt[f].todos[i].echoId = ot.echoId
               \/ \E i \in 1..(L.li - 1) :
                    /\ file.todos[i].echoId = ot.echoId
                    /\ <<file.filePath, file.todos[i].line>> \notin L.unpushed
         IN  /\ (ot.echoId # 0 /\ seenBefore) =>
                  /\ todos' = todos
                  /\ M.updated = L.updated /\ M.errors = L.errors
             /\ (ot.echoId \in DOMAIN L.echoById /\ ~seenBefore
                   /\ <<"push", 0>> \notin faults) =>
                  todos'[ot.echoId].completed = ot.completed
             /\ (M.pc = "t_refetch" /\ M.errors = 0 /\ M.created = 0) =>
                  \A id \in {x \in DOMAIN todos : ~todos[x].archived} :
                    LET I(f) == {i \in 1..Len(nt[f].todos) :
                                   nt[f].todos[i].echoId = id}
                        F == {f \in 1..Len(nt) : I(f) # {}}
                    IN  F # {} =>
                          todos'[id].completed =
                            nt[Min(F)].todos[Min(I(Min(F)))].completed]_vars

\* C30 witness: todo 5 stands in a checked line of the file scanned first
\* and in an unchecked line of the file scanned second; the first line has
\* been pushed, the second has been passed, and the todo is completed
C30_Witness ==
  \E c \in Callers :
    LET L == loc[c]
    IN  /\ L.pc = "t_line" /\ L.fi = 2 /\ L.li = 2
        /\ L.updated = 1 /\ L.errors = 0
        /\ \E i \in 1..Len(L.noteTodos[1].todos) :
             /\ L.noteTodos[1].todos[i].echoId = 5
             /\ L.noteTodos[1].todos[i].completed
        /\ L.noteTodos[2].todos[1].echoId = 5
        /\ ~L.noteTodos[2].todos[1].completed
        /\ 5 \in DOMAIN todos /\ todos[5].completed

\* C31 (as claimed): a scanned task line whose id stands in a line scanned
\* before it, in a file scanned earlier or earlier in its own file, is
\* treated as not found: its turn changes no remote todo and counts
\* neither an update nor an error.
C31_LaterOccurrenceSkipped ==
  [][\A c \in Callers :
       (loc[c].pc = "t_line" /\ loc'[c] # loc[c]) =>
         LET L == loc[c]
             nt == L.noteTodos
             ot == nt[L.fi].todos[L.li]
             seenBefore ==
               \/ \E f \in 1..(L.fi - 1) : \E i \in 1..Len(nt[f].todos) :
                    nt[f].todos[i].echoId = ot.echoId
               \/ \E i \in 1..(L.li - 1) :
                    nt[L.fi].todos[i].echoId = ot.echoId
         IN  (ot.echoId # 0 /\ seenBefore) =>
               /\ todos' = todos
               /\ loc'[c].updated = L.updated
               /\ loc'[c].errors = L.errors]_vars

\* C32: the turn of a scanned task line whose id is the id of no remote
\* todo, or of an archived one, changes no remote todo and no daily note
\* and counts neither a creation, an update nor an error.
C32_UnknownIdSkipped ==
  [][\A c \in Callers :
       (loc[c].pc = "t_line" /\ loc'[c] # loc[c]) =>
         LET L == loc[c]
             ot == L.noteTodos[L.fi].todos[L.li]
         IN  (/\ ot.echoId # 0
              /\ (ot.echoId \notin DOMAIN todos \/ todos[ot.echoId].archived)) =>
               /\ todos' = todos
               /\ daily' = daily
               /\ loc'[c].created = L.created
               /\ loc'[c].updated = L.updated
               /\ loc'[c].errors = L.errors]_vars

\* C32 witness: the line loop has ended with nothing created, updated or
\* counted as an error; a scanned line carries the id of an archived todo,
\* another the id of no remote todo, and both stand in their files
C32_Witness ==
  \E c \in Callers :
    LET L == loc[c]
        Kept(f, i) ==
          /\ L.noteTodos[f].filePath \in DOMAIN daily
          /\ Split(daily[L.noteTodos[f].filePath])
               [L.noteTodos[f].todos[i].lineIndex + 1] = L.noteTodos[f].todos[i].line
    IN  /\ L.pc = "t_refetch"
        /\ L.created = 0 /\ L.updated = 0 /\ L.errors = 0
        /\ \E f \in 1..Len(L.noteTodos) : \E i \in 1..Len(L.noteTodos[f].todos) :
             /\ L.noteTodos[f].todos[i].echoId \in DOMAIN todos
             /\ todos[L.noteTodos[f].todos[i].echoId].archived
             /\ Kept(f, i)
        /\ \E f \in 1..Len(L.noteTodos) : \E i \in 1..Len(L.noteTodos[f].todos) :
             /\ L.noteTodos[f].todos[i].echoId # 0
             /\ L.noteTodos[f].todos[i].echoId \notin DOMAIN todos
             /\ Kept(f, i)

\* C33: when createTodo, updateTodo or the rewrite of the line throws in
\* the turn of a task line, the error count of the pass rises by one and
\* neither created nor updated changes; a turn that does not throw counts
\* no error.  Thrown or not, the pass goes on with the next line of the
\* file, else with the first line of the next file, else with the re-fetch.
C33_LineFailureIsolation ==
  [][\A c \in Callers :
       (loc[c].pc = "t_line" /\ loc'[c] # loc[c]) =>
         LET L == loc[c]
             M == loc'[c]
             file == L.noteTodos[L.fi]
             ot == file.todos[L.li]
             throws ==
               IF ot.echoId # 0
               THEN /\ ot.echoId \in DOMAIN L.echoById
                    /\ L.echoById[ot.echoId] # ot.completed
                    /\ <<"push", 0>> \in faults
               ELSE <<"push", 0>> \in faults \/ <<"rewrite", 0>> \in faults
         IN  /\ throws => /\ M.errors = Bump(L.errors, 1)
                          /\ M.created = L.created
                          /\ M.updated = L.updated
             /\ ~throws => M.errors = L.errors
             /\ M.noteTodos = L.noteTodos
             /\ IF L.li < Len(file.todos)
                THEN M.pc = "t_line" /\ M.fi = L.fi /\ M.li = L.li + 1
                ELSE IF L.fi < Len(L.noteTodos)
                THEN M.pc = "t_line" /\ M.fi = L.fi + 1 /\ M.li = 1
                ELSE M.pc = "t_refetch"]_vars

\* C33 witness: the turns of two task lines have thrown, a later line of
\* the file has been pushed, and the line loop has ended
C33_Witness ==
  \E c \in Callers :
    /\ loc[c].pc = "t_refetch"
    /\ loc[c].errors = 2 /\ loc[c].created = 0 /\ loc[c].updated = 1
    /\ Len(loc[c].noteTodos) = 1
    /\ loc[c].noteTodos[1].todos[1].echoId = 0
    /\ loc[c].noteTodos[1].todos[2].echoId = 0

\* C34: a failure of the first todo fetch, of the scan, of the re-fetch or of
\* the section write leaves TodoSync.sync() as an exception: the run ends
\* with one error more than the capture stage counted and with no todo
\* counted, whatever the lines did.  When the first fetch or the scan fails
\* no line has been handled and neither the remote todos nor any note has
\* changed in the pass; when the re-fetch fails no note changes.
C34_StructuralFailureAborts ==
  [][\A c \in Callers :
       LET L == loc[c]
           early == \/ L.pc = "todo" /\ <<"todos", 0>> \in faults
                    \/ L.pc = "t_scan" /\ <<"scan", 0>> \in faults /\ recent # <<>>
           refetch == L.pc = "t_refetch" /\ <<"todos", 1>> \in faults
           write == L.pc = "t_write" /\ <<"write", 0>> \in faults
       IN  ((early \/ refetch \/ write) /\ loc'[c] # loc[c]) =>
             /\ loc'[c].pc = "idle"
             /\ ended'.outcome = "returned"
             /\ ended'.errors = Bump(L.totalErrors, 1)
             /\ ended'.todos = 0
             /\ todos' = todos
             /\ early => /\ daily' = daily
                         /\ L.created = 0 /\ L.updated = 0 /\ L.errors = 0
                         /\ L.noteTodos = <<>>
                         /\ L.unpushed = {}
             /\ refetch => daily' = daily]_vars

\* C34 witness: a run whose lines created a todo remotely, and whose
\* re-fetch then failed, has ended with one error and no todo counted.
C34_Witness ==
  /\ \A c \in Callers : loc[c].pc = "idle"
  /\ runs = 1
  /\ faults = {<<"todos", 1>>}
  /\ ended.outcome = "returned" /\ ended.errors = 1 /\ ended.todos = 0
  /\ \E id \in DOMAIN todos : id \notin {3, 5}

\* C35: the marker rewrite overwrites no change of the user: when the call
\* ends, the file is the file as it stood just before, with the marker
\* added to the scanned line if that line stands verbatim at the recorded
\* index, and untouched if it does not.
C35_NoClobber ==
  [][(MarkerLog("write") = <<>> /\ MarkerLog("skip") = <<>>
      /\ (MarkerLog("write") # <<>> \/ MarkerLog("skip") # <<>>)') =>
       LET ot == MarkerLog("scan")[1]
           current == ahist[Len(ahist)]
           lines == Split(current)
           after == ahist'[Len(ahist')]
       IN  IF ot.lineIndex < Len(lines) /\ lines[ot.lineIndex + 1] = ot.content
           THEN (MarkerLog("write") # <<>>)'
                  => after = JoinLines([lines EXCEPT ![ot.lineIndex + 1] =
                               ot.content \o <<"SP">> \o TapeMark
                                 \o <<"t", "SP">> \o Digits(MarkerTodoId)])
           ELSE after = current]_vars

\* C36: when the named header stands in the file as a header line, the
\* section ends at the next header line whose depth is at most the depth of
\* the named header, or at the end of the file: the text from there onward
\* is left as it was, appendToSection keeps the text before it and puts the
\* fragment right before it, and replaceTodoSection puts the entries between
\* the header and it.  A deeper header line does not end the section.
C36_BoundaryByDepth ==
  \A k \in 1..Len(aentries) :
    LET doc == ahist[k]
        new == ahist[k + 1]
        h == aentries[k].header
        at == IndexOf(doc, h)
        Depth(s, j) == Max({d \in 0..6 : j + d - 1 <= Len(s)
                                         /\ \A i \in 0..(d - 1) : s[j + i] = "#"})
        ends == {j \in HeaderStarts(doc) : j > at /\ Depth(doc, j) <= Depth(h, 1)}
        end == IF ends = {} THEN Len(doc) + 1 ELSE Min(ends)
        tail == Substring(doc, end)
        head == SubSeq(new, 1, Len(new) - Len(tail))
        entry == aentries[k].entry
    IN  (/\ at \in HeaderStarts(doc)
         /\ at + Len(h) > Len(doc) \/ doc[at + Len(h)] = "NL"
         /\ aentries[k].op = "append" => new # doc) =>
          /\ Len(new) >= Len(tail)
          /\ Substring(new, Len(new) - Len(tail) + 1) = tail
          /\ TrimEnd(head) =
               IF aentries[k].op = "append"
               THEN TrimEnd(TrimEnd(SubSeq(doc, 1, end - 1)) \o <<"NL", "NL">>
                              \o entry)
               ELSE TrimEnd(SubSeq(doc, 1, at + Len(h) - 1) \o <<"NL", "NL">>
                              \o entry)

\* C37: when the first place of the file at which the header literal stands
\* is not a header line of its own, that place is not taken as the section:
\* the file keeps its text up to the header line that is the section's, or
\* all its text when it has no such line.
C37_StructuralHeader ==
  \A k \in 1..Len(aentries) :
    LET doc == ahist[k]
        new == ahist[k + 1]
        h == aentries[k].header
        at == IndexOf(doc, h)
        own == {j \in HeaderStarts(doc) :
                  /\ OccursAt(doc, h, j)
                  /\ j + Len(h) > Len(doc) \/ doc[j + Len(h)] = "NL"}
        keep == IF own = {} THEN TrimEnd(doc)
                ELSE SubSeq(doc, 1, Min(own) + Len(h) - 1)
    IN  (at # 0 /\ at \notin own) =>
          /\ Len(new) >= Len(keep)
          /\ SubSeq(new, 1, Len(keep)) = keep

\* C38: the fragment formatCapture builds ends with the marker line of the
\* capture's id, and the id appendToSection takes from the fragment for
\* its duplicate test is the capture's id, whatever the text, the tags and
\* the location hold and whatever the toggles are.
C38_MarkerRoundTrip ==
  LET id == Digits(aentries[1].capture.id)
      line == <<"NL", "SP", "SP">> \o LegacyMarker(id)
  IN  /\ Len(ahist) >= 1 =>
           /\ Len(ahist[1]) > Len(line)
           /\ Substring(ahist[1], Len(ahist[1]) - Len(line) + 1) = line
      /\ Len(ahist) = 2 => ahist[2] = id

\* C39: at most one interval timer is set after any step, none after a
\* call of stopAutoSync, and the timer the plugin holds is the one that is
\* set; a step that starts a sync is taken with a server URL and a token
\* that are both not empty.
C39_OneTimer ==
  [][/\ Cardinality(ahist'[1].timers) <= 1
     /\ ahist'[1].timers = {ahist'[1].autoSyncInterval} \ {0}
     /\ aentries'[1] = "stop" => ahist'[1].timers = {}
     /\ runs' # runs => /\ Len(ahist[1].serverUrl) > 0
                        /\ Len(ahist[1].token) > 0]_vars

\* C39 witness: the timer has been started, replaced and is set, and two
\* syncs have been started.
C39_Witness ==
  /\ ahist[1].timers = {2}
  /\ aentries[1] = "start"
  /\ runs = 2
====
